---- MODULE Spec2Model ----
(***************************************************************************)
(* Pixel-processing core of the photo editor: mask-driven auto-crop        *)
(* (services/autoCrop.ts), convolution sharpening and the sharpness score  *)
(* (imageSharpening), histogram analysis (services/imageAnalysis.ts) and   *)
(* palette extraction (services/colorAnalysis.ts), the loader of the       *)
(* segmentation model (services/backgroundRemover.ts) and the editor's     *)
(* undo history (useImageEditor).                                          *)
(*                                                                         *)
(* JavaScript numbers that need not be whole are IEEE-754 doubles, held    *)
(* as records [neg, m, e] and combined by the arithmetic of the Double     *)
(* operators below: every CropBounds field (x, y, width, height), the      *)
(* averages, levels and scores of the analysers, the vibrancies.  The      *)
(* options given as decimal literals are named by their digits:            *)
(* paddingPercentage in hundredths (15 stands for 0.15) and the sharpening *)
(* intensity in tenths (15 stands for 1.5).                                *)
(***************************************************************************)
EXTENDS Integers, Sequences, FiniteSets, TLC

VARIABLES
  pc,                 \* position of the running call
  width,              \* canvas.width / imageData.width
  height,             \* canvas.height / imageData.height
  segmentation,       \* segmentation.data, one entry per pixel, 0 or 1
  paddingPercentage,  \* options.paddingPercentage, in hundredths
  minCropSize,        \* options.minCropSize
  cropBounds,         \* result of findOptimalCropBounds, fields are doubles
  originalImageData,  \* source buffer of cropImageData: [data, width, height]
  rect1,              \* rectangle of the first crop, fields are doubles
  rect2,              \* rectangle of the second crop, relative to the first result
  cropped1,           \* cropImageData(originalImageData, rect1)
  cropped2,           \* cropImageData(cropped1, rect2)
  croppedDirect,      \* cropImageData(originalImageData, rect2 moved by rect1)
  imageData,          \* input of sharpenImage: [data, width, height]
  intensity,          \* options.intensity, in tenths
  method,             \* options.method
  sharpened,          \* result.imageData of sharpenImage
  analysedImage,      \* input of the analysers: [data, width, height]
  analysis,           \* result of analyzeImageHistogram
  sharpness,          \* result of analyzeImageSharpness
  clusterCount,       \* k, the number of clusters asked of extractColorPalette
  maxIterations,      \* iteration limit of extractColorPalette
  maxSamples,         \* sample limit of extractColorPalette
  pixels,             \* working set returned by samplePixels
  centroids,          \* current centroids of the K-means loop
  seedIndex,          \* loop counter of initializeCentroids
  iteration,          \* loop counter of extractColorPalette
  converged,          \* whether the loop left through the convergence break
  colors,             \* colors of the returned ColorPalette
  box,                \* box handed to one step of findOptimalCropBounds
  boxOut,             \* box returned by that step
  model,              \* module variable model of backgroundRemover: Null or the loaded model
  isLoading,          \* module variable isLoading of backgroundRemover
  callerPc,           \* where each running call of loadBodyPixModel is suspended
  calls,              \* number of calls of loadBodyPixModel each caller has made
  got,                \* what each caller's last call returned
  history             \* the editor's HistoryState: [past, present, future]

cropVars == <<width, height, segmentation, paddingPercentage, minCropSize, cropBounds>>
applyVars == <<originalImageData, rect1, rect2, cropped1, cropped2, croppedDirect>>
sharpenVars == <<imageData, intensity, method, sharpened>>
analysisVars == <<analysedImage, analysis, sharpness>>
paletteVars == <<clusterCount, maxIterations, maxSamples, pixels, centroids, seedIndex, iteration,
                converged, colors>>
stepVars == <<box, boxOut>>
loaderVars == <<model, isLoading, callerPc, calls, got>>
historyVars == <<history>>

vars == <<pc, cropVars, applyVars, sharpenVars, analysisVars, paletteVars, stepVars,
          loaderVars, historyVars>>

---------------------------------------------------------------------------
(* Bounds of the model *)

MaxWidth == 5
MaxHeight == 4
MaxMinCrop == 3
MaxBufferWidth == 3
MaxBufferHeight == 2
MaxImageWidth == 4
MaxImageHeight == 4
MaxHistPixels == 6
MaxPalettePixels == 3
MaxClusters == 3
MaxIterations == 2
MaxStepSide == 6
MaxCallers == 3
MaxCalls == 2
MaxImageStates == 3
MaxHistoryStates == 4

---------------------------------------------------------------------------
(* Arithmetic helpers *)

Min2(a, b) == IF a < b THEN a ELSE b
Max2(a, b) == IF a > b THEN a ELSE b

SetMin(S) == CHOOSE m \in S : \A o \in S : m <= o
SetMax(S) == CHOOSE m \in S : \A o \in S : m >= o

\* Math.round(num / den) for den > 0: nearest integer, halves towards +infinity
MathRound(num, den) == (2 * num + den) \div (2 * den)

\* num / den (den > 0) rounded to the nearest integer, halves to the even one
RoundHalfEven(num, den) ==
  LET f == num \div den
      twice == 2 * (num - f * den)
  IN  IF twice < den THEN f
      ELSE IF twice > den THEN f + 1
      ELSE IF f % 2 = 0 THEN f ELSE f + 1

\* the conversion a Uint8ClampedArray applies to a stored number num / den
ToUint8Clamp(num, den) ==
  IF num <= 0 THEN 0
  ELSE IF num >= 255 * den THEN 255
  ELSE RoundHalfEven(num, den)

\* floor of the square root, by bisection
RECURSIVE ISqrtBetween(_, _, _)
ISqrtBetween(n, lo, hi) ==
  IF lo >= hi THEN lo
  ELSE LET mid == (lo + hi + 1) \div 2
       IN  IF mid * mid <= n THEN ISqrtBetween(n, mid, hi)
           ELSE ISqrtBetween(n, lo, mid - 1)

ISqrt(n) == ISqrtBetween(n, 0, 46340)

---------------------------------------------------------------------------
(* JavaScript numbers: IEEE-754 binary64 arithmetic, round to nearest even.
   A natural number of any size is a sequence of 15-bit limbs, lowest first,
   with no leading zero limb; zero is the empty sequence.  A double is
   [neg, m, e] with value m * 2^e, where m is such a number with exactly 53
   bits, or the empty sequence for zero. *)

RECURSIVE BigFromInt(_)
BigFromInt(n) ==
  IF n = 0 THEN << >> ELSE <<n % 32768>> \o BigFromInt(n \div 32768)

RECURSIVE BigToInt(_)
BigToInt(a) ==
  IF a = << >> THEN 0 ELSE Head(a) + 32768 * BigToInt(Tail(a))

RECURSIVE BigTrim(_)
BigTrim(a) ==
  IF a = << >> THEN a
  ELSE IF a[Len(a)] = 0 THEN BigTrim(SubSeq(a, 1, Len(a) - 1))
  ELSE a

BigRest(a) == IF a = << >> THEN a ELSE Tail(a)
BigLow(a) == IF a = << >> THEN 0 ELSE Head(a)

RECURSIVE BigAddCarry(_, _, _)
BigAddCarry(a, b, carry) ==
  IF a = << >> /\ b = << >>
  THEN IF carry = 0 THEN << >> ELSE <<carry>>
  ELSE LET x == BigLow(a) + BigLow(b) + carry
       IN  <<x % 32768>> \o BigAddCarry(BigRest(a), BigRest(b), x \div 32768)

BigAdd(a, b) == BigAddCarry(a, b, 0)

\* a - b for a >= b, before the leading zero limbs are dropped
RECURSIVE BigSubBorrow(_, _, _)
BigSubBorrow(a, b, borrow) ==
  IF a = << >> THEN << >>
  ELSE LET x == Head(a) - BigLow(b) - borrow
       IN  IF x < 0
           THEN <<x + 32768>> \o BigSubBorrow(Tail(a), BigRest(b), 1)
           ELSE <<x>> \o BigSubBorrow(Tail(a), BigRest(b), 0)

BigSub(a, b) == BigTrim(BigSubBorrow(a, b, 0))

\* -1, 0 or 1 as the limbs 1..i of a are below, equal to or above those of b
RECURSIVE BigCmpFrom(_, _, _)
BigCmpFrom(a, b, i) ==
  IF i = 0 THEN 0
  ELSE IF a[i] < b[i] THEN -1
  ELSE IF a[i] > b[i] THEN 1
  ELSE BigCmpFrom(a, b, i - 1)

BigCmp(a, b) ==
  IF Len(a) < Len(b) THEN -1
  ELSE IF Len(a) > Len(b) THEN 1
  ELSE BigCmpFrom(a, b, Len(a))

\* a * k + carry for one limb k
RECURSIVE BigMulSmall(_, _, _)
BigMulSmall(a, k, carry) ==
  IF a = << >>
  THEN IF carry = 0 THEN << >> ELSE <<carry>>
  ELSE LET x == Head(a) * k + carry
       IN  <<x % 32768>> \o BigMulSmall(Tail(a), k, x \div 32768)

RECURSIVE BigMul(_, _)
BigMul(a, b) ==
  IF a = << >> \/ b = << >> THEN << >>
  ELSE IF Head(a) = 0 THEN <<0>> \o BigMul(Tail(a), b)
  ELSE IF Head(b) = 0 THEN <<0>> \o BigMul(a, Tail(b))
  ELSE BigTrim(BigAdd(BigMulSmall(b, Head(a), 0), <<0>> \o BigMul(Tail(a), b)))

\* a * 2^n
BigShiftLeft(a, n) ==
  IF a = << >> THEN a
  ELSE [i \in 1..(n \div 15) |-> 0] \o BigTrim(BigMulSmall(a, 2 ^ (n % 15), 0))

\* floor(a / 2^n)
BigShiftRight(a, n) ==
  IF Len(a) <= n \div 15 THEN << >>
  ELSE LET high == SubSeq(a, (n \div 15) + 1, Len(a))
           p == 2 ^ (n % 15)
       IN  BigTrim([i \in 1..Len(high) |->
                      (high[i] \div p)
                      + ((IF i < Len(high) THEN high[i + 1] ELSE 0) % p)
                        * (32768 \div p)])

BigBitLength(a) ==
  IF a = << >> THEN 0
  ELSE 15 * (Len(a) - 1)
       + (CHOOSE n \in 1..15 : 2 ^ (n - 1) <= a[Len(a)] /\ a[Len(a)] < 2 ^ n)

BigOdd(a) == a # << >> /\ Head(a) % 2 = 1

\* the largest t in lo..hi with d * t <= r (lo is one such)
RECURSIVE BigDigit(_, _, _, _)
BigDigit(r, d, lo, hi) ==
  IF lo >= hi THEN lo
  ELSE LET mid == (lo + hi + 1) \div 2
       IN  IF BigCmp(BigMulSmall(d, mid, 0), r) <= 0
           THEN BigDigit(r, d, mid, hi)
           ELSE BigDigit(r, d, lo, mid - 1)

BigDigitBelow(r, d, guess) == BigDigit(r, d, Max2(0, guess - 2), guess)

\* the largest t with d * t <= r, for r < 32768 * d and a d whose highest limb
\* is 16384 or more: the quotient of the two highest limbs of r by the
\* highest limb of d is t, t + 1 or t + 2
BigDigitNear(r, d) ==
  BigDigitBelow(r, d,
                Min2(32767, ((IF Len(r) > Len(d) THEN 32768 * r[Len(d) + 1] ELSE 0)
                             + (IF Len(r) >= Len(d) THEN r[Len(d)] ELSE 0)) \div d[Len(d)]))

\* the digit t put above the count digits of lower[1]
BigQuotientJoin(lower, count, t) ==
  <<BigTrim(lower[1] \o [i \in 1..(count - Len(lower[1])) |-> 0] \o <<t>>), lower[2]>>

RECURSIVE BigQuotient(_, _, _)

\* BigQuotient once its highest digit t leaves rest
BigQuotientRest(d, count, t, rest) ==
  IF count = 0 THEN <<BigFromInt(t), rest # << >> >>
  ELSE BigQuotientJoin(BigQuotient(BigTrim(<<0>> \o rest), d, count - 1), count, t)

BigQuotientAfter(r, d, count, t) ==
  BigQuotientRest(d, count, t, BigSub(r, BigMulSmall(d, t, 0)))

\* <<floor(r * 32768^count / d), whether a remainder is left>> for r < 32768 * d
\* and a d whose highest limb is 16384 or more
BigQuotient(r, d, count) == BigQuotientAfter(r, d, count, BigDigitNear(r, d))

\* the largest t in lo..hi with (twice + t) * t <= r (lo is one such)
RECURSIVE BigRootDigit(_, _, _, _)
BigRootDigit(r, twice, lo, hi) ==
  IF lo >= hi THEN lo
  ELSE LET mid == (lo + hi + 1) \div 2
       IN  IF BigCmp(BigMulSmall(BigAdd(twice, <<mid>>), mid, 0), r) <= 0
           THEN BigRootDigit(r, twice, mid, hi)
           ELSE BigRootDigit(r, twice, lo, mid - 1)

\* the long square root, two limbs of n for each limb of the root: root is
\* the root of the limbs above pair, rest what they leave
RECURSIVE BigRootFrom(_, _, _, _)

\* BigRootFrom once the next limb t of the root is known
BigRootNext(n, pair, root, r, twice, t) ==
  BigRootFrom(n, pair - 1, BigTrim(<<t>> \o root),
              BigSub(r, IF t = 0 THEN << >> ELSE BigMulSmall(BigAdd(twice, <<t>>), t, 0)))

\* BigRootFrom for the remainder r, rest with the next pair of limbs of n
\* put under it, and twice the root
BigRootStep(n, pair, root, r, twice) ==
  BigRootNext(n, pair, root, r, twice, BigRootDigit(r, twice, 0, 32767))

BigRootFrom(n, pair, root, rest) ==
  IF pair = 0 THEN <<root, rest # << >> >>
  ELSE BigRootStep(n, pair, root,
                   BigTrim(<<n[2 * pair - 1], IF 2 * pair <= Len(n) THEN n[2 * pair] ELSE 0>>
                           \o rest),
                   BigTrim(<<0>> \o BigMulSmall(root, 2, 0)))

\* <<floor of the square root of n, whether a remainder is left>>
BigRoot(n) == BigRootFrom(n, (Len(n) + 1) \div 2, << >>, << >>)

DoubleZero == [neg |-> FALSE, m |-> << >>, e |-> 0]

\* m * 2^e for an m of 53 bits, or of 54 bits that end in a zero
DoubleOf(neg, m, e) ==
  IF BigBitLength(m) = 54
  THEN [neg |-> neg, m |-> BigShiftRight(m, 1), e |-> e + 1]
  ELSE [neg |-> neg, m |-> m, e |-> e]

\* whether n, cut to 53 bits, is rounded up: kept holds the 53 bits and the
\* first of the bits that are dropped, below holds the number of bits under it
DoubleRoundsUp(n, kept, below, sticky) ==
  /\ BigOdd(kept)
  /\ sticky \/ BigOdd(BigShiftRight(kept, 1)) \/ BigShiftLeft(kept, below) # n

\* DoubleRound for an n of more than 53 bits
DoubleRoundCut(neg, n, e, sticky, below, kept) ==
  DoubleOf(neg,
           IF DoubleRoundsUp(n, kept, below, sticky)
           THEN BigAdd(BigShiftRight(kept, 1), <<1>>)
           ELSE BigShiftRight(kept, 1),
           e + below + 1)

\* DoubleRound for an n of bits bits
DoubleRoundBits(neg, n, e, sticky, bits) ==
  IF bits <= 53
  THEN [neg |-> neg, m |-> BigShiftLeft(n, 53 - bits), e |-> e - (53 - bits)]
  ELSE DoubleRoundCut(neg, n, e, sticky, bits - 54, BigShiftRight(n, bits - 54))

\* n * 2^e, plus a little when sticky, as the nearest double (ties to even)
DoubleRound(neg, n, e, sticky) ==
  IF n = << >> THEN DoubleZero ELSE DoubleRoundBits(neg, n, e, sticky, BigBitLength(n))

DoubleFromInt(i) ==
  DoubleRound(i < 0, BigFromInt(IF i < 0 THEN -i ELSE i), 0, FALSE)

DoubleNeg(a) == IF a.m = << >> THEN a ELSE [a EXCEPT !.neg = ~a.neg]

DoubleMul(a, b) ==
  IF a.m = << >> \/ b.m = << >> THEN DoubleZero
  ELSE DoubleRound(a.neg # b.neg, BigMul(a.m, b.m), a.e + b.e, FALSE)

\* am * 2^e + bm * 2^e with the signs aneg and bneg, where c compares am
\* with bm
DoubleAddSigned(aneg, bneg, am, bm, e, c) ==
  IF aneg # bneg /\ c = 0 THEN DoubleZero
  ELSE DoubleRound(IF aneg = bneg \/ c > 0 THEN aneg ELSE bneg,
                   IF aneg = bneg THEN BigAdd(am, bm)
                   ELSE IF c > 0 THEN BigSub(am, bm)
                   ELSE BigSub(bm, am),
                   e, FALSE)

DoubleAddAligned(aneg, bneg, am, bm, e) ==
  DoubleAddSigned(aneg, bneg, am, bm, e, BigCmp(am, bm))

\* a + b with both brought to the exponent e
DoubleAddAt(a, b, e) ==
  DoubleAddAligned(a.neg, b.neg, BigShiftLeft(a.m, a.e - e), BigShiftLeft(b.m, b.e - e), e)

DoubleAdd(a, b) ==
  IF a.m = << >> THEN b
  ELSE IF b.m = << >> THEN a
  ELSE DoubleAddAt(a, b, IF a.e < b.e THEN a.e ELSE b.e)

DoubleSub(a, b) == DoubleAdd(a, DoubleNeg(b))

\* the double of q[1] * 2^e, plus a little when q[2]
DoubleOfCut(neg, q, e) == DoubleRound(neg, q[1], e, q[2])

\* 2^52, the 53 bits of a power of two
BigPowerOfTwo == <<0, 0, 0, 128>>

\* a / b for b # 0.  A power of two changes the exponent only.  Otherwise
\* both are shifted by 7 bits to 60, which fills the highest of their four
\* limbs; the quotient by 32768^4 has 60 or 61 bits.
DoubleDiv(a, b) ==
  IF a.m = << >> THEN DoubleZero
  ELSE IF b.m = BigPowerOfTwo
  THEN [neg |-> a.neg # b.neg, m |-> a.m, e |-> a.e - b.e - 52]
  ELSE DoubleOfCut(a.neg # b.neg,
                   BigQuotient(BigShiftLeft(a.m, 7), BigShiftLeft(b.m, 7), 4),
                   a.e - b.e - 60)

\* Math.sqrt(a) for a > 0, with a.m * 2^shift a number of an even exponent
DoubleSqrtShifted(a, shift) ==
  DoubleOfCut(FALSE, BigRoot(BigShiftLeft(a.m, shift)), (a.e - shift) \div 2)

\* Math.sqrt(a) for a >= 0
DoubleSqrt(a) ==
  IF a.m = << >> THEN DoubleZero
  ELSE DoubleSqrtShifted(a, IF a.e % 2 = 0 THEN 56 ELSE 57)

\* |a| < |b| for a and b other than zero: both have 53 bits
DoubleBelow(a, b) == a.e < b.e \/ (a.e = b.e /\ BigCmp(a.m, b.m) < 0)

\* a < b
DoubleLess(a, b) ==
  IF a.m = << >> THEN b.m # << >> /\ ~b.neg
  ELSE IF b.m = << >> THEN a.neg
  ELSE IF a.neg # b.neg THEN a.neg
  ELSE IF a.neg THEN DoubleBelow(b, a)
  ELSE DoubleBelow(a, b)

\* the decimal literal num / den of the source text
DoubleLiteral(num, den) == DoubleDiv(DoubleFromInt(num), DoubleFromInt(den))

\* floor(|a| * 2^k) for k >= 0 and whether |a| * 2^k has a fraction
DoubleScaled(a, k) ==
  IF a.e + k >= 0 THEN <<BigShiftLeft(a.m, a.e + k), FALSE>>
  ELSE <<BigShiftRight(a.m, -(a.e + k)),
         BigShiftLeft(BigShiftRight(a.m, -(a.e + k)), -(a.e + k)) # a.m>>

DoubleIsInteger(a) == ~DoubleScaled(a, 0)[2]

\* Math.floor(a)
DoubleFloor(a) ==
  IF a.neg THEN -(BigToInt(DoubleScaled(a, 0)[1]) + (IF DoubleScaled(a, 0)[2] THEN 1 ELSE 0))
  ELSE BigToInt(DoubleScaled(a, 0)[1])

\* a cut to a whole number towards zero
DoubleTruncate(a) ==
  IF a.neg THEN -BigToInt(DoubleScaled(a, 0)[1]) ELSE BigToInt(DoubleScaled(a, 0)[1])

\* Math.round(a): floor(a + 1/2), the sum taken exactly
DoubleMathRound(a) ==
  IF a.neg
  THEN -((BigToInt(DoubleScaled(a, 1)[1]) + (IF DoubleScaled(a, 1)[2] THEN 1 ELSE 0)) \div 2)
  ELSE (BigToInt(DoubleScaled(a, 1)[1]) + 1) \div 2

\* the whole number nearest to t / 2, plus a little when above, the even one
\* of two
NearestEven(t, above) ==
  IF t % 2 = 0 THEN t \div 2
  ELSE IF above THEN (t + 1) \div 2
  ELSE IF (t \div 2) % 2 = 0 THEN t \div 2 ELSE (t + 1) \div 2

\* the byte a Uint8ClampedArray stores for a
DoubleToUint8Clamp(a) ==
  IF a.neg \/ a.m = << >> THEN 0
  ELSE IF ~DoubleLess(a, DoubleFromInt(255)) THEN 255
  ELSE NearestEven(BigToInt(DoubleScaled(a, 1)[1]), DoubleScaled(a, 1)[2])

DoubleHalf == DoubleLiteral(1, 2)

\* the double a decimal literal with one digit after the point denotes,
\* given in tenths (15 for 1.5)
DecimalTenths(t) == DoubleLiteral(t, 10)

\* Math.round(a) as the double it returns
DoubleRounded(a) == DoubleFromInt(DoubleMathRound(a))

\* a <= b
DoubleAtMost(a, b) == ~DoubleLess(b, a)

\* Math.min(a, b) and Math.max(a, b)
DoubleMin(a, b) == IF DoubleLess(b, a) THEN b ELSE a
DoubleMax(a, b) == IF DoubleLess(a, b) THEN b ELSE a

DoubleAbs(a) == [a EXCEPT !.neg = FALSE]

\* acc + f[lo] + ... + f[hi], added from the left as a loop does.  The range
\* is halved to keep the nesting shallow; the test on left only makes its
\* value be computed before the right half is started.
RECURSIVE DoubleSumInto(_, _, _, _)
DoubleSumInto(acc, f, lo, hi) ==
  IF hi < lo THEN acc
  ELSE IF lo = hi THEN DoubleAdd(acc, f[lo])
  ELSE LET left == DoubleSumInto(acc, f, lo, (lo + hi) \div 2)
       IN  IF left.m = << >> /\ left.neg THEN left
           ELSE DoubleSumInto(left, f, (lo + hi) \div 2 + 1, hi)

DoubleSumRange(f, lo, hi) == DoubleSumInto(DoubleZero, f, lo, hi)

---------------------------------------------------------------------------
(* Results that are not values *)

\* the value no call has produced yet, and the outcome of a call that threw
NotRun == [pending |-> TRUE]
Threw == [threw |-> TRUE]

---------------------------------------------------------------------------
(* services/autoCrop.ts *)

Null == [null |-> TRUE]

DefaultPaddingPercentage == 15
DefaultMinCropSize == 100

\* a CropBounds of whole numbers
Rect(x, y, w, h) ==
  [x |-> DoubleFromInt(x), y |-> DoubleFromInt(y),
   width |-> DoubleFromInt(w), height |-> DoubleFromInt(h)]

\* a variant of findSubjectBounds whose minX and minY start from 0
findSubjectBoundsMinFromZero(seg, w, h) ==
  LET subject == {i \in 0..(w * h - 1) : seg[i] = 1}
      minX == SetMin({0} \cup {i % w : i \in subject})
      maxX == SetMax({0} \cup {i % w : i \in subject})
      minY == SetMin({0} \cup {i \div w : i \in subject})
      maxY == SetMax({0} \cup {i \div w : i \in subject})
  IN  IF Cardinality(subject) = 0
      THEN Null
      ELSE Rect(minX, minY, maxX - minX + 1, maxY - minY + 1)

\* findSubjectBounds: bounding box of the entries equal to 1, or null
findSubjectBounds(seg, w, h) ==
  LET subject == {i \in 0..(w * h - 1) : seg[i] = 1}
      minX == SetMin({w} \cup {i % w : i \in subject})
      maxX == SetMax({0} \cup {i % w : i \in subject})
      minY == SetMin({h} \cup {i \div w : i \in subject})
      maxY == SetMax({0} \cup {i \div w : i \in subject})
  IN  IF Cardinality(subject) = 0
      THEN Null
      ELSE Rect(minX, minY, maxX - minX + 1, maxY - minY + 1)

\* applyCropPadding, lines 75-76: Math.round(size * paddingPercentage), with
\* paddingPercentage given in hundredths
paddingFor(size, padding) == DoubleRounded(DoubleMul(size, DoubleLiteral(padding, 100)))

\* lines 79-84: paddedBounds
paddedBounds(bounds, paddingX, paddingY) ==
  [x |-> DoubleMax(DoubleZero, DoubleSub(bounds.x, paddingX)),
   y |-> DoubleMax(DoubleZero, DoubleSub(bounds.y, paddingY)),
   width |-> DoubleAdd(bounds.width, DoubleMul(DoubleFromInt(2), paddingX)),
   height |-> DoubleAdd(bounds.height, DoubleMul(DoubleFromInt(2), paddingY))]

\* lines 87-89 and 91-93: the size after the trim at the right / bottom edge
trimmedSize(start, size, imageSize) ==
  IF DoubleLess(DoubleFromInt(imageSize), DoubleAdd(start, size))
  THEN DoubleSub(DoubleFromInt(imageSize), start)
  ELSE size

\* lines 86-95
trimmedBounds(padded, imageWidth, imageHeight) ==
  [x |-> padded.x,
   y |-> padded.y,
   width |-> trimmedSize(padded.x, padded.width, imageWidth),
   height |-> trimmedSize(padded.y, padded.height, imageHeight)]

\* a variant of applyCropPadding without the right / bottom trim of lines 86-93
applyCropPaddingNoTrim(bounds, imageWidth, imageHeight, padding) ==
  paddedBounds(bounds, paddingFor(bounds.width, padding), paddingFor(bounds.height, padding))

\* applyCropPadding
applyCropPadding(bounds, imageWidth, imageHeight, padding) ==
  trimmedBounds(
    paddedBounds(bounds, paddingFor(bounds.width, padding),
                 paddingFor(bounds.height, padding)),
    imageWidth, imageHeight)

\* findOptimalCropBounds, lines 143-144: Math.round((size - cropSize) / 2)
centeredStart(size, cropSize) ==
  DoubleRounded(DoubleDiv(DoubleSub(DoubleFromInt(size), cropSize), DoubleFromInt(2)))

\* lines 142-147
centeredSquare(w, h, cropSize) ==
  [x |-> centeredStart(w, cropSize),
   y |-> centeredStart(h, cropSize),
   width |-> cropSize,
   height |-> cropSize]

\* findOptimalCropBounds, lines 138-148: center crop when no subject was
\* found, with cropSize = Math.min(width, height) * 0.8
fallbackBounds(w, h) ==
  centeredSquare(w, h, DoubleMul(DoubleFromInt(Min2(w, h)), DoubleLiteral(8, 10)))

\* line 152: scale
minSizeScale(bounds, minSize) ==
  DoubleMax(DoubleDiv(DoubleFromInt(minSize), bounds.width),
            DoubleDiv(DoubleFromInt(minSize), bounds.height))

\* lines 153-154: Math.round(size * scale)
scaledSize(size, scale) == DoubleRounded(DoubleMul(size, scale))

\* lines 157-158: Math.max(0, start - Math.round((newSize - size) / 2))
grownStart(start, size, newSize) ==
  DoubleMax(DoubleZero,
            DoubleSub(start,
                      DoubleRounded(DoubleDiv(DoubleSub(newSize, size), DoubleFromInt(2)))))

\* lines 153-161
scaledBounds(bounds, scale) ==
  [x |-> grownStart(bounds.x, bounds.width, scaledSize(bounds.width, scale)),
   y |-> grownStart(bounds.y, bounds.height, scaledSize(bounds.height, scale)),
   width |-> scaledSize(bounds.width, scale),
   height |-> scaledSize(bounds.height, scale)]

\* findOptimalCropBounds, lines 150-162: ensure minimum crop size
ensureMinCropSize(bounds, minSize) ==
  IF \/ DoubleLess(bounds.width, DoubleFromInt(minSize))
     \/ DoubleLess(bounds.height, DoubleFromInt(minSize))
  THEN scaledBounds(bounds, minSizeScale(bounds, minSize))
  ELSE bounds

\* line 169: aspectRatio > 3 || aspectRatio < 0.33
aspectOutside(aspectRatio) ==
  \/ DoubleLess(DoubleFromInt(3), aspectRatio)
  \/ DoubleLess(aspectRatio, DoubleLiteral(33, 100))

\* lines 168-169
aspectTooExtreme(bounds) == aspectOutside(DoubleDiv(bounds.width, bounds.height))

\* lines 172-177: Math.max(0, Math.round(center - targetSize / 2)) with
\* center = start + size / 2
squaredStart(start, size, targetSize) ==
  DoubleMax(DoubleZero,
            DoubleRounded(
              DoubleSub(DoubleAdd(start, DoubleDiv(size, DoubleFromInt(2))),
                        DoubleDiv(targetSize, DoubleFromInt(2)))))

\* lines 175-180
squaredBounds(bounds, targetSize) ==
  [x |-> squaredStart(bounds.x, bounds.width, targetSize),
   y |-> squaredStart(bounds.y, bounds.height, targetSize),
   width |-> targetSize,
   height |-> targetSize]

\* findOptimalCropBounds, lines 167-181: square the box when its aspect ratio
\* is above 3 or below 0.33
normalizeAspectRatio(bounds) ==
  IF aspectTooExtreme(bounds)
  THEN squaredBounds(bounds, DoubleMin(bounds.width, bounds.height))
  ELSE bounds

\* the box after the subject / fallback step
initialBounds(seg, w, h) ==
  IF findSubjectBounds(seg, w, h) = Null
  THEN fallbackBounds(w, h)
  ELSE findSubjectBounds(seg, w, h)

\* a variant that gives up when no subject is found instead of falling back
findOptimalCropBoundsNoFallback(seg, w, h, padding, minSize) ==
  IF findSubjectBounds(seg, w, h) = Null
  THEN Null
  ELSE normalizeAspectRatio(
         applyCropPadding(
           ensureMinCropSize(findSubjectBounds(seg, w, h), minSize),
           w, h, padding))

findOptimalCropBounds(seg, w, h, padding, minSize) ==
  normalizeAspectRatio(
    applyCropPadding(
      ensureMinCropSize(initialBounds(seg, w, h), minSize),
      w, h, padding))

---------------------------------------------------------------------------
(* Inputs of the auto-crop specification *)

PaddingPercentages == {0, DefaultPaddingPercentage, 50}
MinCropSizes == (1..MaxMinCrop) \cup {DefaultMinCropSize}

\* a mask whose foreground is the filled rectangle (x0, y0, w0, h0)
RectMask(w, h, x0, y0, w0, h0) ==
  [i \in 0..(w * h - 1) |->
     IF (i % w) \in x0..(x0 + w0 - 1) /\ (i \div w) \in y0..(y0 + h0 - 1) THEN 1 ELSE 0]

\* a mask whose foreground is the set S of pixel indices
ScatterMask(w, h, S) == [i \in 0..(w * h - 1) |-> IF i \in S THEN 1 ELSE 0]

Masks(w, h) ==
  {RectMask(w, h, x0, y0, w0, h0) :
     <<x0, y0, w0, h0>> \in {r \in (0..(w - 1)) \X (0..(h - 1)) \X (1..w) \X (1..h) :
                               r[1] + r[3] <= w /\ r[2] + r[4] <= h}}
  \cup {ScatterMask(w, h, {a, b}) : a \in 0..(w * h - 1), b \in 0..(w * h - 1)}
  \cup {ScatterMask(w, h, {})}

CropIdle ==
  /\ width = 1
  /\ height = 1
  /\ segmentation = [i \in 0..0 |-> 0]
  /\ paddingPercentage = DefaultPaddingPercentage
  /\ minCropSize = DefaultMinCropSize
  /\ cropBounds = Null

ApplyIdle ==
  /\ originalImageData = NotRun
  /\ rect1 = Null
  /\ rect2 = Null
  /\ cropped1 = NotRun
  /\ cropped2 = NotRun
  /\ croppedDirect = NotRun

SharpenIdle ==
  /\ imageData = NotRun
  /\ intensity = 0
  /\ method = "unsharp"
  /\ sharpened = NotRun

AnalysisIdle ==
  /\ analysedImage = NotRun
  /\ analysis = NotRun
  /\ sharpness = NotRun

\* defaults of extractColorPalette's parameters
DefaultK == 5
DefaultMaxIterations == 50
DefaultMaxSamples == 5000

PaletteIdle ==
  /\ clusterCount = DefaultK
  /\ maxIterations = DefaultMaxIterations
  /\ maxSamples = DefaultMaxSamples
  /\ pixels = <<>>
  /\ centroids = <<>>
  /\ seedIndex = 0
  /\ iteration = 0
  /\ converged = FALSE
  /\ colors = NotRun

StepIdle ==
  /\ box = Null
  /\ boxOut = Null

\* the callers of loadBodyPixModel
Callers == 1..MaxCallers

\* backgroundRemover.ts, lines 4-5: no model, not loading, no call running
LoaderIdle ==
  /\ model = Null
  /\ isLoading = FALSE
  /\ callerPc = [c \in Callers |-> "idle"]
  /\ calls = [c \in Callers |-> 0]
  /\ got = [c \in Callers |-> NotRun]

\* initialImageState, the present of the initial history
initialImageState == 1

\* useState<HistoryState>, lines 650-654
HistoryIdle ==
  history = [past |-> <<>>, present |-> initialImageState, future |-> <<>>]

CropInit ==
  /\ ApplyIdle
  /\ SharpenIdle
  /\ AnalysisIdle
  /\ PaletteIdle
  /\ StepIdle
  /\ LoaderIdle
  /\ HistoryIdle
  /\ pc = "crop_start"
  /\ width \in 1..MaxWidth
  /\ height \in 1..MaxHeight
  /\ segmentation \in Masks(width, height)
  /\ paddingPercentage \in PaddingPercentages
  /\ minCropSize \in MinCropSizes
  /\ cropBounds = Null

\* autoCropImage, lines 235-244
AutoCrop ==
  /\ pc = "crop_start"
  /\ cropBounds' = findOptimalCropBounds(segmentation, width, height,
                                         paddingPercentage, minCropSize)
  /\ pc' = IF cropBounds' = Null THEN "crop_error" ELSE "crop_bounds"
  /\ UNCHANGED <<width, height, segmentation, paddingPercentage, minCropSize>>
  /\ UNCHANGED <<applyVars, sharpenVars, analysisVars, paletteVars, stepVars, loaderVars, historyVars>>

CropNext == AutoCrop

SpecCrop == CropInit /\ [][CropNext]_vars

---------------------------------------------------------------------------
(* Properties of the crop computation *)

EmptyMask == \A i \in DOMAIN segmentation : segmentation[i] = 0

\* C1: the rectangle returned by findOptimalCropBounds lies inside the image:
\* x >= 0, y >= 0, x + width <= imageWidth and y + height <= imageHeight.
\* The last two are compared as width <= imageWidth - x and
\* height <= imageHeight - y: x and y are whole numbers in every state, which
\* makes the differences exact.
CropBoundsInsideImage ==
  pc = "crop_bounds" =>
    /\ DoubleAtMost(DoubleZero, cropBounds.x)
    /\ DoubleAtMost(DoubleZero, cropBounds.y)
    /\ DoubleAtMost(cropBounds.width, DoubleSub(DoubleFromInt(width), cropBounds.x))
    /\ DoubleAtMost(cropBounds.height, DoubleSub(DoubleFromInt(height), cropBounds.y))

\* C1 witness: a subject box that the minimum-size step enlarged, that was
\* padded past the right and bottom edges and trimmed back to them.
CropBoundsTrimmedWitness ==
  /\ pc = "crop_bounds"
  /\ ~EmptyMask
  /\ paddingPercentage > 0
  /\ minCropSize = 3
  /\ DoubleLess(findSubjectBounds(segmentation, width, height).width, DoubleFromInt(3))
  /\ DoubleLess(DoubleZero, cropBounds.x)
  /\ DoubleLess(DoubleZero, cropBounds.y)
  /\ DoubleAdd(cropBounds.x, cropBounds.width) = DoubleFromInt(width)
  /\ DoubleAdd(cropBounds.y, cropBounds.height) = DoubleFromInt(height)

\* C2: the rectangle returned by findOptimalCropBounds has integer x, y,
\* width and height for every mask, the all-zero mask included.
CropBoundsAreIntegers ==
  pc = "crop_bounds" =>
    /\ DoubleIsInteger(cropBounds.x)
    /\ DoubleIsInteger(cropBounds.y)
    /\ DoubleIsInteger(cropBounds.width)
    /\ DoubleIsInteger(cropBounds.height)

\* C3: for an all-zero mask and the default options the returned rectangle is
\* a square of side 0.8 * min(imageWidth, imageHeight) whose center is within
\* one pixel of the image center.
EmptyMaskGivesCenteredSquare ==
  (/\ pc = "crop_bounds"
   /\ EmptyMask
   /\ paddingPercentage = DefaultPaddingPercentage
   /\ minCropSize = DefaultMinCropSize) =>
    /\ cropBounds.width = DoubleMul(DoubleFromInt(Min2(width, height)), DoubleLiteral(8, 10))
    /\ cropBounds.height = DoubleMul(DoubleFromInt(Min2(width, height)), DoubleLiteral(8, 10))
    /\ DoubleAtMost(
         DoubleAbs(DoubleSub(DoubleAdd(cropBounds.x,
                                       DoubleDiv(cropBounds.width, DoubleFromInt(2))),
                             DoubleLiteral(width, 2))),
         DoubleFromInt(1))
    /\ DoubleAtMost(
         DoubleAbs(DoubleSub(DoubleAdd(cropBounds.y,
                                       DoubleDiv(cropBounds.height, DoubleFromInt(2))),
                             DoubleLiteral(height, 2))),
         DoubleFromInt(1))

\* C4: findOptimalCropBounds never returns null, so autoCropImage never takes
\* its 'Unable to determine crop bounds' branch, whatever the mask.
CropBoundsNeverNull ==
  /\ pc # "crop_error"
  /\ pc = "crop_bounds" => cropBounds # Null

\* C4 witness: the crop of an all-zero mask has returned a rectangle.
EmptyMaskCropWitness ==
  /\ pc = "crop_bounds"
  /\ EmptyMask
  /\ findSubjectBounds(segmentation, width, height) = Null
  /\ cropBounds # Null

\* C6: a mask whose foreground is one filled rectangle (x0, y0, w0, h0) with
\* 0.333 <= w0 / h0 <= 3.0, cropped with paddingPercentage 0 and
\* minCropSize 1, yields exactly that rectangle.
RectMaskGivesExactBounds ==
  \A x0 \in 0..(width - 1), y0 \in 0..(height - 1), w0 \in 1..width, h0 \in 1..height :
    (/\ pc = "crop_bounds"
     /\ x0 + w0 <= width
     /\ y0 + h0 <= height
     /\ segmentation = RectMask(width, height, x0, y0, w0, h0)
     /\ paddingPercentage = 0
     /\ minCropSize = 1
     /\ 1000 * w0 >= 333 * h0
     /\ w0 <= 3 * h0) =>
      cropBounds = Rect(x0, y0, w0, h0)

\* C6 witness: the 3 x 2 rectangle at (1, 1) has been returned as the crop.
RectMaskExactWitness ==
  /\ pc = "crop_bounds"
  /\ width >= 4
  /\ height >= 3
  /\ segmentation = RectMask(width, height, 1, 1, 3, 2)
  /\ paddingPercentage = 0
  /\ minCropSize = 1
  /\ cropBounds = Rect(1, 1, 3, 2)

\* C26: for an image at least minCropSize wide and high, the rectangle
\* returned by the crop computation is at least minCropSize wide and high,
\* whatever the mask.
CropBoundsKeepMinimumSize ==
  (pc = "crop_bounds" /\ width >= minCropSize /\ height >= minCropSize) =>
    /\ DoubleAtMost(DoubleFromInt(minCropSize), cropBounds.width)
    /\ DoubleAtMost(DoubleFromInt(minCropSize), cropBounds.height)

---------------------------------------------------------------------------
(* services/autoCrop.ts: cropImageData.  The rectangle's fields are doubles,
   as those of every CropBounds; a buffer's width and height are whole. *)

\* originalData[i]; a read outside the array gives undefined, stored as 0
readByte(originalData, i) == IF i \in DOMAIN originalData THEN originalData[i] ELSE 0

\* line 107: width * height * 4 as the typed array takes it, cut to a whole
\* number towards zero; the allocation throws a RangeError when it is negative
croppedLength(bounds) ==
  DoubleTruncate(DoubleMul(DoubleMul(bounds.width, bounds.height), DoubleFromInt(4)))

\* lines 110-111: the number of passes of a loop that counts from 0 while
\* the counter is below limit
loopPasses(limit) ==
  IF ~DoubleLess(DoubleZero, limit) THEN 0
  ELSE IF DoubleIsInteger(limit) THEN DoubleTruncate(limit)
  ELSE DoubleTruncate(limit) + 1

\* the place a number names in a typed array: itself when it is a whole
\* number that is not negative, else none (-1)
arrayIndex(index) ==
  IF DoubleIsInteger(index) /\ ~index.neg THEN DoubleFloor(index) ELSE -1

\* lines 112-119: ((rowStart + cropY) * rowLength + (columnStart + cropX)) * 4 + c.
\* Whole numbers of this size are added and multiplied exactly.  An index
\* that is not a whole number names no byte of a typed array, no more than
\* a negative one: -1.
bufferIndex(rowStart, cropY, rowLength, columnStart, cropX, c) ==
  IF DoubleIsInteger(rowStart) /\ DoubleIsInteger(rowLength) /\ DoubleIsInteger(columnStart)
  THEN ((DoubleTruncate(rowStart) + cropY) * DoubleTruncate(rowLength)
        + (DoubleTruncate(columnStart) + cropX)) * 4 + c
  ELSE arrayIndex(
         DoubleAdd(
           DoubleMul(
             DoubleAdd(
               DoubleMul(DoubleAdd(rowStart, DoubleFromInt(cropY)), rowLength),
               DoubleAdd(columnStart, DoubleFromInt(cropX))),
             DoubleFromInt(4)),
           DoubleFromInt(c)))

\* lines 110-119: the <<cropY, cropX, c>> of the loops that store at byte j
storesAt(bounds, j) ==
  IF DoubleIsInteger(bounds.width) /\ DoubleLess(DoubleZero, bounds.width)
  THEN {<<(j \div 4) \div DoubleTruncate(bounds.width),
          (j \div 4) % DoubleTruncate(bounds.width), j % 4>>}
  ELSE {t \in (0..(loopPasses(bounds.height) - 1))
              \X (0..(loopPasses(bounds.width) - 1)) \X (0..3) :
          bufferIndex(DoubleZero, t[1], bounds.width, DoubleZero, t[2], t[3]) = j}

\* the last of a set of loop positions, in the order the loops run
lastStore(stores) ==
  CHOOSE t \in stores :
    \A u \in stores : u[1] < t[1] \/ (u[1] = t[1] /\ u[2] < t[2])
                      \/ (u[1] = t[1] /\ u[2] = t[2] /\ u[3] <= t[3])

\* line 123: new ImageData(croppedData, width, height) throws when the array
\* is empty or not a whole number of pixels, or is not sw rows of sh pixels
\* (sw, sh: width and height as unsigned long, the fraction dropped; a
\* negative width becomes 2^32 minus its size, which divides no length here)
imageDataThrows(length, bounds) ==
  \/ length = 0
  \/ length % 4 # 0
  \/ DoubleLess(bounds.width, DoubleFromInt(1))
  \/ (length \div 4) % DoubleTruncate(bounds.width) # 0
  \/ (length \div 4) \div DoubleTruncate(bounds.width) # DoubleTruncate(bounds.height)

\* lines 112-119: the byte one pass <<cropY, cropX, c>> of the loops reads
\* from the source
readAt(original, rowLength, bounds, pass) ==
  readByte(original.data,
           bufferIndex(bounds.y, pass[1], rowLength, bounds.x, pass[2], pass[3]))

\* the byte the loops leave in a place of the cropped array: 0 where they
\* store nothing, else what the last store read from the source
storedByte(original, rowLength, bounds, stores) ==
  IF stores = {} THEN 0
  ELSE readAt(original, rowLength, bounds, lastStore(stores))

\* the rectangle's four fields are whole numbers
IsWholeRect(bounds) ==
  /\ DoubleIsInteger(bounds.x)
  /\ DoubleIsInteger(bounds.y)
  /\ DoubleIsInteger(bounds.width)
  /\ DoubleIsInteger(bounds.height)

\* lines 110-121 for whole numbers x, y, w > 0 and rowLength, whose sums and
\* products are exact: byte j is stored once, by the pass with
\* cropY = (j div 4) div w and cropX = (j div 4) mod w
copiedWhole(originalData, rowLength, x, y, w, length) ==
  [j \in 0..(length - 1) |->
     readByte(originalData,
              ((y + ((j \div 4) \div w)) * rowLength + (x + ((j \div 4) % w))) * 4
              + (j % 4))]

\* lines 110-121 for any numbers
copiedData(original, rowLength, bounds, length) ==
  [j \in 0..(length - 1) |-> storedByte(original, rowLength, bounds, storesAt(bounds, j))]

\* lines 107-123 for an array of the given length and a source whose rows
\* are taken to be rowLength pixels long
croppedImage(original, rowLength, bounds, length) ==
  IF length < 0 \/ imageDataThrows(length, bounds)
  THEN Threw
  ELSE [data |-> IF IsWholeRect(bounds) /\ DoubleIsInteger(rowLength)
                 THEN copiedWhole(original.data, DoubleTruncate(rowLength),
                                  DoubleTruncate(bounds.x), DoubleTruncate(bounds.y),
                                  DoubleTruncate(bounds.width), length)
                 ELSE copiedData(original, rowLength, bounds, length),
        width |-> DoubleTruncate(bounds.width),
        height |-> DoubleTruncate(bounds.height)]

\* a variant of cropImageData that takes the row stride from the crop width
cropImageDataCropStride(original, bounds) ==
  croppedImage(original, bounds.width, bounds, croppedLength(bounds))

\* cropImageData: the typed-array allocation of line 107 throws a RangeError
\* on a negative length; every byte the loops store is read from the source
\* at the index computed in line 112, with no bounds test, and the bytes they
\* do not store stay 0; the ImageData constructor of line 123 throws on a
\* buffer that is empty or does not match the width and height
cropImageData(original, bounds) ==
  croppedImage(original, DoubleFromInt(original.width), bounds, croppedLength(bounds))

\* the rectangle lies inside the buffer: x >= 0, y >= 0,
\* width <= image.width - x and height <= image.height - y
RectInside(bounds, image) ==
  /\ DoubleAtMost(DoubleZero, bounds.x)
  /\ DoubleAtMost(DoubleZero, bounds.y)
  /\ DoubleAtMost(bounds.width, DoubleSub(DoubleFromInt(image.width), bounds.x))
  /\ DoubleAtMost(bounds.height, DoubleSub(DoubleFromInt(image.height), bounds.y))

\* rect2, given relative to the result of cropping with rect1, in the
\* coordinates of the source buffer
ComposedRect(r1, r2) ==
  [x |-> DoubleAdd(r1.x, r2.x), y |-> DoubleAdd(r1.y, r2.y),
   width |-> r2.width, height |-> r2.height]

---------------------------------------------------------------------------
(* Inputs of the crop-application specification *)

\* a buffer whose byte i is (seed + step * i) mod 256
RampBuffer(w, h, seed, step) ==
  [data |-> [i \in 0..(w * h * 4 - 1) |-> (seed + step * i) % 256],
   width |-> w,
   height |-> h]

SourceBuffers ==
  {RampBuffer(w, h, sp[1], sp[2]) :
     w \in 1..MaxBufferWidth, h \in 1..MaxBufferHeight, sp \in {<<1, 1>>, <<200, 37>>}}

\* rectangles around a w x h buffer: whole ones inside it, overlapping its
\* edges, with no area, or with the negative width on which the allocation
\* fails, and the ones findOptimalCropBounds returns for a w x h image
\* without a subject, some of which have sides that are not whole
RectsAround(w, h) ==
  {Rect(r[1], r[2], r[3], r[4]) :
     r \in (-1..w) \X (-1..h) \X (-1..(w + 1)) \X (0..(h + 1))}
  \cup {findOptimalCropBounds(ScatterMask(w, h, {}), w, h, p, m) :
          p \in PaddingPercentages, m \in 1..MaxMinCrop}

\* whole rectangles inside a w x h buffer, those with no area included
RectsWithin(w, h) ==
  {Rect(r[1], r[2], r[3], r[4]) :
     r \in {q \in (0..(w - 1)) \X (0..(h - 1)) \X (0..w) \X (0..h) :
              q[1] + q[3] <= w /\ q[2] + q[4] <= h}}

ApplyInit ==
  /\ CropIdle
  /\ SharpenIdle
  /\ AnalysisIdle
  /\ PaletteIdle
  /\ StepIdle
  /\ LoaderIdle
  /\ HistoryIdle
  /\ pc = "apply_start"
  /\ originalImageData \in SourceBuffers
  /\ rect1 \in RectsAround(originalImageData.width, originalImageData.height)
  /\ rect2 \in IF \/ DoubleLess(rect1.width, DoubleFromInt(1))
                  \/ DoubleLess(rect1.height, DoubleFromInt(1))
                THEN {Null}
                ELSE RectsWithin(DoubleTruncate(rect1.width), DoubleTruncate(rect1.height))
  /\ cropped1 = NotRun
  /\ cropped2 = NotRun
  /\ croppedDirect = NotRun

\* cropImageData(originalImageData, rect1)
CropFirst ==
  /\ pc = "apply_start"
  /\ cropped1 = NotRun
  /\ cropped1' = cropImageData(originalImageData, rect1)
  /\ UNCHANGED <<pc, originalImageData, rect1, rect2, cropped2, croppedDirect>>
  /\ UNCHANGED <<cropVars, sharpenVars, analysisVars, paletteVars, stepVars, loaderVars, historyVars>>

\* cropImageData(cropped1, rect2), on the buffer the first crop returned
CropSecond ==
  /\ pc = "apply_start"
  /\ cropped1 # NotRun
  /\ cropped1 # Threw
  /\ cropped2 = NotRun
  /\ cropped2' = cropImageData(cropped1, rect2)
  /\ UNCHANGED <<pc, originalImageData, rect1, rect2, cropped1, croppedDirect>>
  /\ UNCHANGED <<cropVars, sharpenVars, analysisVars, paletteVars, stepVars, loaderVars, historyVars>>

\* cropImageData(originalImageData, composed rectangle)
CropDirect ==
  /\ pc = "apply_start"
  /\ rect2 # Null
  /\ croppedDirect = NotRun
  /\ croppedDirect' = cropImageData(originalImageData, ComposedRect(rect1, rect2))
  /\ UNCHANGED <<pc, originalImageData, rect1, rect2, cropped1, cropped2>>
  /\ UNCHANGED <<cropVars, sharpenVars, analysisVars, paletteVars, stepVars, loaderVars, historyVars>>

ApplyNext == CropFirst \/ CropSecond \/ CropDirect

SpecApply == ApplyInit /\ [][ApplyNext]_vars

---------------------------------------------------------------------------
(* Properties of crop application *)

\* C5: cropImageData fails with an error, instead of returning a buffer,
\* whenever the rectangle extends outside the source buffer.
CropOutsideBufferFails ==
  (cropped1 # NotRun /\ ~RectInside(rect1, originalImageData)) => cropped1 = Threw

\* C7: for a rectangle rect1 inside the buffer and a rectangle rect2 inside
\* the first result, cropping twice equals cropping once with the composed
\* rectangle, byte for byte, and both are the pixel-for-pixel copy of the
\* sub-block of the source.
CropComposes ==
  (/\ cropped2 # NotRun
   /\ croppedDirect # NotRun
   /\ IsWholeRect(rect1)
   /\ IsWholeRect(rect2)
   /\ RectInside(rect1, originalImageData)
   /\ RectInside(rect2, cropped1)) =>
    /\ cropped2 = croppedDirect
    /\ (DoubleLess(DoubleZero, rect2.width) /\ DoubleLess(DoubleZero, rect2.height)) =>
         LET w2 == DoubleTruncate(rect2.width)
             h2 == DoubleTruncate(rect2.height)
             x0 == DoubleTruncate(rect1.x) + DoubleTruncate(rect2.x)
             y0 == DoubleTruncate(rect1.y) + DoubleTruncate(rect2.y)
         IN  /\ cropped2.width = w2
             /\ cropped2.height = h2
             /\ DOMAIN cropped2.data = 0..(w2 * h2 * 4 - 1)
             /\ \A cx \in 0..(w2 - 1), cy \in 0..(h2 - 1), c \in 0..3 :
                  cropped2.data[(cy * w2 + cx) * 4 + c] =
                    originalImageData.data[((y0 + cy) * originalImageData.width
                                             + (x0 + cx)) * 4 + c]

\* C7 witness: both crops are done, with a first rectangle narrower than the
\* buffer and not at its origin and a second one not at the origin of the first.
CropComposesWitness ==
  /\ cropped2 # NotRun
  /\ croppedDirect # NotRun
  /\ RectInside(rect1, originalImageData)
  /\ rect1.x = DoubleFromInt(1)
  /\ rect1.width = DoubleFromInt(2)
  /\ rect1.height = DoubleFromInt(2)
  /\ rect2.x = DoubleFromInt(1)
  /\ rect2.y = DoubleFromInt(1)
  /\ originalImageData.width = 3
  /\ cropped2 = croppedDirect

---------------------------------------------------------------------------
(* Image sharpening: sharpenImage and its three methods.  A value that is  *)
(* not an integer is the pair <<num, den>> standing for num / den.         *)

DefaultIntensity == 15

gaussianKernel == <<1, 2, 1, 2, 4, 2, 1, 2, 1>>
\* a variant whose weights sum to 0
laplacianKernelZeroSum == <<0, -1, 0, -1, 4, -1, 0, -1, 0>>
laplacianKernel == <<0, -1, 0, -1, 5, -1, 0, -1, 0>>
sobelX == <<-1, 0, 1, -2, 0, 2, -1, 0, 1>>
sobelY == <<-1, -2, -1, 0, 0, 0, 1, 2, 1>>

\* the colour channels the kernels are applied to: for (c = 0; c < 3; c++)
colourChannels == 0..2

\* the 3 x 3 neighbourhood of channel c of pixel (x, y) weighted by the kernel
kernelSum(original, w, x, y, c, kernel) ==
  LET term(ki) ==
        original[((y + (ki \div 3) - 1) * w + (x + (ki % 3) - 1)) * 4 + c] * kernel[ki + 1]
  IN  term(0) + term(1) + term(2) + term(3) + term(4) + term(5) + term(6) + term(7) + term(8)

\* a store that keeps the low eight bits of the truncated value
storeByteWrapped(value) == (value[1] \div value[2]) % 256

\* result[index] = Math.max(0, Math.min(255, value)), stored in the
\* Uint8ClampedArray of the result ImageData
storeByte(value) ==
  LET capped == IF value[1] > 255 * value[2] THEN 255 * value[2] ELSE value[1]
      floored == IF capped < 0 THEN 0 ELSE capped
  IN  ToUint8Clamp(floored, value[2])

\* an alpha byte that is set to opaque
alphaOpaque(original, alphaIndex) == 255

\* result[alphaIndex] = original[alphaIndex]
copyAlpha(original, alphaIndex) == original[alphaIndex]

\* a result buffer left as allocated, all zeros
leaveZeroed(data) == [i \in DOMAIN data |-> 0]

\* sharpenImage, lines 26-32: the result starts as a copy of the input
copyOriginal(data) == [i \in DOMAIN data |-> data[i]]

\* applyUnsharpMask, lines 82-100: blurred[blurredIndex] = sum / kernelSum,
\* stored in a Uint8ClampedArray
blurredValue(original, w, x, y, c) ==
  ToUint8Clamp(kernelSum(original, w, x, y, c, gaussianKernel), 16)

\* applyUnsharpMask, lines 106-110: originalValue + difference * intensity
unsharpValue(original, w, x, y, c, intens) ==
  LET originalValue == original[(y * w + x) * 4 + c]
      difference == originalValue - blurredValue(original, w, x, y, c)
  IN  <<10 * originalValue + difference * intens, 10>>

\* applyLaplacianSharpening, lines 139-151:
\* original + (sum - original) * intensity * 0.3
laplacianValue(original, w, x, y, c, intens) ==
  LET originalValue == original[(y * w + x) * 4 + c]
      sum == kernelSum(original, w, x, y, c, laplacianKernel)
  IN  <<100 * originalValue + (sum - originalValue) * intens * 3, 100>>

\* |intensity| * 0.2 * sqrt(squares), in units of 1/200.  An irrational
\* value is replaced by the middle of the interval of width 1/100 that
\* contains it, and a value of 256 or more by 256: both are stored as the
\* same byte as the exact value.
edgeTerm(squares, intens) ==
  LET k == IF intens < 0 THEN -intens ELSE intens
      q == 4 * k * k * squares
      root == ISqrt(q)
  IN  IF k * ISqrt(squares) >= 12800 THEN 51200
      ELSE IF root * root = q THEN 2 * root
      ELSE 2 * root + 1

\* applyEdgeEnhancement, lines 176-191: original + edge * intensity * 0.2
edgeValue(original, w, x, y, c, intens) ==
  LET originalValue == original[(y * w + x) * 4 + c]
      gradientX == kernelSum(original, w, x, y, c, sobelX)
      gradientY == kernelSum(original, w, x, y, c, sobelY)
      term == edgeTerm(gradientX * gradientX + gradientY * gradientY, intens)
  IN  <<200 * originalValue + (IF intens < 0 THEN -term ELSE term), 200>>

\* the unclamped value a method computes for channel c of pixel (x, y),
\* in exact arithmetic
methodValue(m, original, w, x, y, c, intens) ==
  IF m = "laplacian" THEN laplacianValue(original, w, x, y, c, intens)
  ELSE IF m = "edge-enhance" THEN edgeValue(original, w, x, y, c, intens)
  ELSE unsharpValue(original, w, x, y, c, intens)

\* the same value as the double the method computes: lines 108, 151 and 189,
\* each product and sum rounded as it is made
methodDouble(m, original, w, x, y, c, intens) ==
  LET originalValue == original[(y * w + x) * 4 + c]
      gradientX == kernelSum(original, w, x, y, c, sobelX)
      gradientY == kernelSum(original, w, x, y, c, sobelY)
      term ==
        IF m = "laplacian"
        THEN DoubleMul(
               DoubleMul(
                 DoubleFromInt(kernelSum(original, w, x, y, c, laplacianKernel)
                               - originalValue),
                 DecimalTenths(intens)),
               DoubleLiteral(3, 10))
        ELSE IF m = "edge-enhance"
        THEN DoubleMul(
               DoubleMul(
                 DoubleSqrt(DoubleFromInt(gradientX * gradientX + gradientY * gradientY)),
                 DecimalTenths(intens)),
               DoubleLiteral(2, 10))
        ELSE DoubleMul(
               DoubleFromInt(originalValue - blurredValue(original, w, x, y, c)),
               DecimalTenths(intens))
  IN  DoubleAdd(DoubleFromInt(originalValue), term)

\* num / den lies halfway between two whole numbers
IsHalf(value) == (2 * value[1]) % (2 * value[2]) = value[2]

\* result[index] = Math.max(0, Math.min(255, value)): the byte stored for a
\* method's value.  The double leaves the exact value by too little to
\* change the byte unless the exact value is a half, where the double decides.
methodByte(m, original, w, x, y, c, intens) ==
  IF IsHalf(methodValue(m, original, w, x, y, c, intens))
  THEN DoubleToUint8Clamp(methodDouble(m, original, w, x, y, c, intens))
  ELSE storeByte(methodValue(m, original, w, x, y, c, intens))

\* pixel (x, y) is one the loops of the three methods visit
isInterior(w, h, x, y) == x \in 1..(w - 2) /\ y \in 1..(h - 2)

\* the loops shared by the three methods: every pixel of [1, width-2] x
\* [1, height-2] gets its three colour bytes from the method and its alpha
\* byte from the original; nothing else is written
applyMethod(m, original, result, w, h, intens) ==
  [i \in DOMAIN result |->
     LET x == (i \div 4) % w
         y == (i \div 4) \div w
         c == i % 4
     IN  IF isInterior(w, h, x, y)
         THEN IF c \in colourChannels
              THEN methodByte(m, original, w, x, y, c, intens)
              ELSE IF c = 3 THEN copyAlpha(original, i) ELSE result[i]
         ELSE result[i]]

applyUnsharpMask(original, result, w, h, intens) ==
  applyMethod("unsharp", original, result, w, h, intens)

applyLaplacianSharpening(original, result, w, h, intens) ==
  applyMethod("laplacian", original, result, w, h, intens)

applyEdgeEnhancement(original, result, w, h, intens) ==
  applyMethod("edge-enhance", original, result, w, h, intens)

\* sharpenImage: copy, then the method chosen by the switch of lines 37-49
sharpenImage(image, intens, m) ==
  LET newData == copyOriginal(image.data)
  IN  [data |-> IF m = "unsharp"
                THEN applyUnsharpMask(image.data, newData, image.width, image.height, intens)
                ELSE IF m = "laplacian"
                THEN applyLaplacianSharpening(image.data, newData, image.width, image.height, intens)
                ELSE IF m = "edge-enhance"
                THEN applyEdgeEnhancement(image.data, newData, image.width, image.height, intens)
                ELSE applyUnsharpMask(image.data, newData, image.width, image.height, intens),
       width |-> image.width,
       height |-> image.height]

---------------------------------------------------------------------------
(* Inputs of the sharpening specification *)

Methods == {"unsharp", "laplacian", "edge-enhance"}

Intensities == {-20, 0, DefaultIntensity, 1000}

\* RGBA colours the input images are painted with
Palette == << <<0, 0, 0, 255>>, <<255, 255, 255, 200>>, <<200, 100, 50, 128>>, <<30, 180, 250, 0>> >>

\* the image whose pixel (x, y) has colour number (a * x + b * y + c0) mod 4:
\* uniform images, stripes, checkerboards and diagonals
PatternImage(w, h, a, b, c0) ==
  [data |-> [i \in 0..(w * h * 4 - 1) |->
               Palette[((a * ((i \div 4) % w) + b * ((i \div 4) \div w) + c0) % 4) + 1][(i % 4) + 1]],
   width |-> w,
   height |-> h]

InputImages ==
  {PatternImage(w, h, a, b, c0) :
     w \in 1..MaxImageWidth, h \in 1..MaxImageHeight, a \in 0..3, b \in 0..3, c0 \in 0..3}

SharpenInit ==
  /\ CropIdle
  /\ ApplyIdle
  /\ AnalysisIdle
  /\ PaletteIdle
  /\ StepIdle
  /\ LoaderIdle
  /\ HistoryIdle
  /\ pc = "sharpen_start"
  /\ imageData \in InputImages
  /\ intensity \in Intensities
  /\ method \in Methods
  /\ sharpened = NotRun

\* sharpenImage(imageData, {intensity, method})
SharpenImage ==
  /\ pc = "sharpen_start"
  /\ sharpened' = sharpenImage(imageData, intensity, method)
  /\ pc' = "sharpen_done"
  /\ UNCHANGED <<imageData, intensity, method>>
  /\ UNCHANGED <<cropVars, applyVars, analysisVars, paletteVars, stepVars, loaderVars, historyVars>>

SharpenNext == SharpenImage

SpecSharpen == SharpenInit /\ [][SharpenNext]_vars

---------------------------------------------------------------------------
(* Properties of sharpening *)

PixelX(i) == (i \div 4) % imageData.width
PixelY(i) == (i \div 4) \div imageData.width

\* C8: every byte of every pixel outside [1, width-2] x [1, height-2] equals
\* the input byte, for each method and intensity; an image with width < 3 or
\* height < 3 comes back unchanged.
SharpenKeepsBorder ==
  pc = "sharpen_done" =>
    /\ sharpened # Threw
    /\ DOMAIN sharpened.data = DOMAIN imageData.data
    /\ \A i \in DOMAIN imageData.data :
         ~isInterior(imageData.width, imageData.height, PixelX(i), PixelY(i))
           => sharpened.data[i] = imageData.data[i]
    /\ (imageData.width < 3 \/ imageData.height < 3) => sharpened.data = imageData.data

\* C8 witness: a sharpened image with an interior, whose interior changed and
\* whose border carries non-zero bytes.
SharpenKeepsBorderWitness ==
  /\ pc = "sharpen_done"
  /\ imageData.width >= 3
  /\ imageData.height >= 3
  /\ sharpened.data # imageData.data
  /\ imageData.data[0] # 0

\* C9: the alpha byte of every output pixel, interior or border, equals the
\* alpha byte of the same input pixel.
SharpenKeepsAlpha ==
  pc = "sharpen_done" =>
    \A i \in DOMAIN imageData.data : i % 4 = 3 => sharpened.data[i] = imageData.data[i]

\* C9 witness: a laplacian-sharpened image whose interior pixel is not opaque
\* and has a neighbour of another alpha, and whose colour bytes changed.
SharpenKeepsAlphaWitness ==
  /\ pc = "sharpen_done"
  /\ method = "laplacian"
  /\ imageData.width >= 3
  /\ imageData.height >= 3
  /\ imageData.data[(imageData.width + 1) * 4 + 3] # 255
  /\ imageData.data[(imageData.width + 1) * 4 + 3] # imageData.data[3]
  /\ sharpened.data # imageData.data

\* C10: every output byte lies in [0, 255], and a colour byte whose unclamped
\* value is below 0 is 0 and one whose unclamped value is above 255 is 255.
SharpenSaturates ==
  pc = "sharpen_done" =>
    \A i \in DOMAIN sharpened.data :
      /\ sharpened.data[i] \in 0..255
      /\ (isInterior(imageData.width, imageData.height, PixelX(i), PixelY(i)) /\ i % 4 < 3) =>
           LET value == methodValue(method, imageData.data, imageData.width,
                                    PixelX(i), PixelY(i), i % 4, intensity)
           IN  /\ value[1] < 0 => sharpened.data[i] = 0
               /\ value[1] > 255 * value[2] => sharpened.data[i] = 255

\* C10 witness: one sharpened image in which some colour byte overflowed and
\* was stored as 255 and another underflowed and was stored as 0.
SharpenSaturatesWitness ==
  /\ pc = "sharpen_done"
  /\ \E i \in DOMAIN sharpened.data :
       /\ isInterior(imageData.width, imageData.height, PixelX(i), PixelY(i))
       /\ i % 4 < 3
       /\ methodValue(method, imageData.data, imageData.width,
                      PixelX(i), PixelY(i), i % 4, intensity)[1] < 0
       /\ sharpened.data[i] = 0
  /\ \E i \in DOMAIN sharpened.data :
       /\ isInterior(imageData.width, imageData.height, PixelX(i), PixelY(i))
       /\ i % 4 < 3
       /\ LET value == methodValue(method, imageData.data, imageData.width,
                                   PixelX(i), PixelY(i), i % 4, intensity)
          IN  value[1] > 255 * value[2]
       /\ sharpened.data[i] = 255

\* every pixel of the input image has the RGBA value of the first
IsUniform ==
  \A i \in DOMAIN imageData.data : imageData.data[i] = imageData.data[i % 4]

\* C28: an image whose pixels all have the same RGBA value comes back from
\* sharpenImage byte for byte, for every intensity >= 0 and each of the
\* three methods.
UniformImageUnchanged ==
  (pc = "sharpen_done" /\ intensity >= 0 /\ IsUniform) =>
    sharpened.data = imageData.data

\* C28 witness: a uniform orange image with an interior, sharpened by the
\* laplacian method at intensity 100 and returned as it was
UniformOrangeWitness ==
  /\ pc = "sharpen_done"
  /\ IsUniform
  /\ imageData.width >= 3
  /\ imageData.height >= 3
  /\ imageData.data[0] = 200
  /\ method = "laplacian"
  /\ intensity = 1000
  /\ sharpened.data = imageData.data

---------------------------------------------------------------------------
(* Whole-number helpers of the analysers *)

Abs(n) == IF n < 0 THEN -n ELSE n

RECURSIVE SumOver(_, _)
SumOver(S, f) ==
  IF S = {} THEN 0
  ELSE LET e == CHOOSE e \in S : TRUE
       IN  f[e] + SumOver(S \ {e}, f)

\* f[lo] + ... + f[hi], summed by halves
RECURSIVE SumRange(_, _, _)
SumRange(f, lo, hi) ==
  IF lo > hi THEN 0
  ELSE IF lo = hi THEN f[lo]
  ELSE SumRange(f, lo, (lo + hi) \div 2) + SumRange(f, (lo + hi) \div 2 + 1, hi)

---------------------------------------------------------------------------
(* Histogram analysis: analyzeImageHistogram (services/imageAnalysis.ts)   *)
(* averageLuminance, contrastLevel, saturationLevel and the recommended    *)
(* adjustments are doubles.                                                *)

\* number of RGBA groups the loop of line 33 visits
groupCount(img) == Cardinality(DOMAIN img.data) \div 4

red(img, p) == img.data[4 * p]
green(img, p) == img.data[4 * p + 1]
blue(img, p) == img.data[4 * p + 2]
alpha(img, p) == img.data[4 * p + 3]

\* a variant that truncates the weighted sum instead of rounding it
pixelLuminanceFloor(r, g, b) == (299 * r + 587 * g + 114 * b) \div 1000

\* 0.299 * r + 0.587 * g + 0.114 * b as line 43 computes it
weightedSum(r, g, b) ==
  DoubleAdd(DoubleAdd(DoubleMul(DoubleLiteral(299, 1000), DoubleFromInt(r)),
                      DoubleMul(DoubleLiteral(587, 1000), DoubleFromInt(g))),
            DoubleMul(DoubleLiteral(114, 1000), DoubleFromInt(b)))

\* Math.round(0.299 * r + 0.587 * g + 0.114 * b), line 43.  The double sum
\* leaves the exact one by too little to change the result unless the exact
\* sum is a half, where the double decides.
pixelLuminance(r, g, b) ==
  IF (299 * r + 587 * g + 114 * b) % 1000 = 500
  THEN DoubleMathRound(weightedSum(r, g, b))
  ELSE MathRound(299 * r + 587 * g + 114 * b, 1000)

\* r /= 255 of lines 25-27 for every byte v, worked out once and kept at
\* place v + 1
unitChannels ==
  [v \in 1..256 |-> DoubleDiv(DoubleFromInt(v - 1), DoubleFromInt(255))] \o << >>

unitChannel(v) == unitChannels[v + 1]

\* l = (max + min) / 2, line 33
hslLightness(max, min) == DoubleDiv(DoubleAdd(max, min), DoubleFromInt(2))

\* s of line 37, reached when max !== min
hslSaturation(max, min) ==
  IF DoubleLess(DoubleLiteral(1, 2), hslLightness(max, min))
  THEN DoubleDiv(DoubleSub(max, min), DoubleSub(DoubleSub(DoubleFromInt(2), max), min))
  ELSE DoubleDiv(DoubleSub(max, min), DoubleAdd(max, min))

\* h of the switch of lines 39-49 followed by h /= 6, line 50
hslHue(r, g, b, max, min) ==
  DoubleDiv(IF max = r
            THEN DoubleAdd(DoubleDiv(DoubleSub(g, b), DoubleSub(max, min)),
                           DoubleFromInt(IF DoubleLess(g, b) THEN 6 ELSE 0))
            ELSE IF max = g
            THEN DoubleAdd(DoubleDiv(DoubleSub(b, r), DoubleSub(max, min)), DoubleFromInt(2))
            ELSE DoubleAdd(DoubleDiv(DoubleSub(r, g), DoubleSub(max, min)), DoubleFromInt(4)),
            DoubleFromInt(6))

\* lines 29-53 for the channels already divided by 255: the array
\* [h * 360, s * 100, l * 100], its places counted from 1
hslOfUnits(r, g, b, max, min) ==
  [place \in 1..3 |->
     IF place = 1
     THEN DoubleMul(IF max = min THEN DoubleZero ELSE hslHue(r, g, b, max, min),
                    DoubleFromInt(360))
     ELSE IF place = 2
     THEN DoubleMul(IF max = min THEN DoubleZero ELSE hslSaturation(max, min),
                    DoubleFromInt(100))
     ELSE DoubleMul(hslLightness(max, min), DoubleFromInt(100))]

\* rgbToHsl of services/colorAnalysis.ts: [h * 360, s * 100, l * 100] in doubles
rgbToHsl(r, g, b) ==
  hslOfUnits(unitChannel(r), unitChannel(g), unitChannel(b),
             unitChannel(Max2(r, Max2(g, b))), unitChannel(Min2(r, Min2(g, b))))

\* a variant that takes the saturation of the HSL conversion, scaled to 0..1
pixelSaturationHsl(r, g, b) == DoubleDiv(rgbToHsl(r, g, b)[2], DoubleFromInt(100))

\* lines 54-56
pixelSaturation(r, g, b) ==
  LET max == Max2(r, Max2(g, b))
      min == Min2(r, Min2(g, b))
  IN  IF max = 0 THEN DoubleZero ELSE DoubleDiv(DoubleFromInt(max - min), DoubleFromInt(max))

\* the pixels that pass the test of line 40
countedPixels(img) == {p \in 0..(groupCount(img) - 1) : alpha(img, p) # 0}

\* histogram.luminance after the loop
histogramLuminance(img) ==
  LET lum == {<<p, pixelLuminance(red(img, p), green(img, p), blue(img, p))>> :
                p \in countedPixels(img)}
  IN  [v \in 0..255 |-> Cardinality({pl \in lum : pl[2] = v})]

\* cumulative > threshold with threshold = totalPixels * 0.01, lines 88, 94
\* and 103.  The product is a double, which decides when the exact product
\* is cumulative itself.
aboveThreshold(cumulative, totalPixels) ==
  IF 100 * cumulative = totalPixels
  THEN DoubleLess(DoubleMul(DoubleFromInt(totalPixels), DoubleLiteral(1, 100)),
                  DoubleFromInt(cumulative))
  ELSE 100 * cumulative > totalPixels

\* the least element of a set, the greatest one, or a value kept when the
\* set is empty
lowestOr(kept, set) == IF set = {} THEN kept ELSE SetMin(set)
highestOr(kept, set) == IF set = {} THEN kept ELSE SetMax(set)

\* the loops of lines 91-97 and 100-106 over the histogram whose non-zero
\* entries are at the indices in used.  cumulative grows only at those
\* indices, so the first index with cumulative > threshold is one of them;
\* the initial values 0 and 255 stay when no index passes the test.
significantRange(luminanceHistogram, used, totalPixels) ==
  [minSignificant |->
     lowestOr(0, {i \in used :
                    aboveThreshold(SumOver({v \in used : v <= i}, luminanceHistogram),
                                   totalPixels)}),
   maxSignificant |->
     highestOr(255, {i \in used :
                       aboveThreshold(SumOver({v \in used : v >= i}, luminanceHistogram),
                                      totalPixels)})]

\* line 109
contrastOfRange(range) ==
  DoubleDiv(DoubleFromInt(range.maxSignificant - range.minSignificant),
            DoubleFromInt(255))

\* the indices of the non-zero entries of a histogram
usedLevels(luminanceHistogram) == {v \in 0..255 : luminanceHistogram[v] > 0}

calculateContrastLevel(luminanceHistogram) ==
  contrastOfRange(significantRange(luminanceHistogram, usedLevels(luminanceHistogram),
                                   SumOver(usedLevels(luminanceHistogram),
                                           luminanceHistogram)))

\* line 119, with targetLuminance = 128 and difference of lines 114-115
calculateBrightnessAdjustment(averageLuminance) ==
  DoubleMax(DoubleFromInt(-80),
            DoubleMin(DoubleFromInt(80),
                      DoubleMul(DoubleDiv(DoubleSub(DoubleFromInt(128), averageLuminance),
                                          DoubleFromInt(128)),
                                DoubleFromInt(60))))

\* lines 128-134
contrastAdjustmentFor(difference) ==
  IF DoubleLess(DoubleZero, difference)
  THEN DoubleMin(DoubleFromInt(50), DoubleMul(difference, DoubleFromInt(100)))
  ELSE DoubleMax(DoubleFromInt(-20), DoubleMul(difference, DoubleFromInt(50)))

\* lines 124-125: targetContrast = 0.8
calculateContrastAdjustment(contrastLevel) ==
  contrastAdjustmentFor(DoubleSub(DoubleLiteral(8, 10), contrastLevel))

\* a variant of lines 143-151 that pulls down from the target on, without
\* the test averageSaturation > 0.6
saturationAdjustmentNoDeadZone(difference, averageSaturation) ==
  IF DoubleLess(DoubleZero, difference)
  THEN DoubleMin(DoubleFromInt(40), DoubleMul(difference, DoubleFromInt(150)))
  ELSE DoubleMax(DoubleFromInt(-20), DoubleMul(difference, DoubleFromInt(100)))

calculateSaturationAdjustmentNoDeadZone(averageSaturation) ==
  saturationAdjustmentNoDeadZone(DoubleSub(DoubleLiteral(4, 10), averageSaturation),
                                 averageSaturation)

\* lines 143-151
saturationAdjustmentFor(difference, averageSaturation) ==
  IF DoubleLess(DoubleZero, difference)
  THEN DoubleMin(DoubleFromInt(40), DoubleMul(difference, DoubleFromInt(150)))
  ELSE IF DoubleLess(DoubleLiteral(6, 10), averageSaturation)
  THEN DoubleMax(DoubleFromInt(-20), DoubleMul(difference, DoubleFromInt(100)))
  ELSE DoubleZero

\* lines 139-140: targetSaturation = 0.4
calculateSaturationAdjustment(averageSaturation) ==
  saturationAdjustmentFor(DoubleSub(DoubleLiteral(4, 10), averageSaturation),
                          averageSaturation)

\* what the passes of the loop of lines 33-58 add up to in totalLuminance
totalLuminance(img) ==
  SumRange([p \in 0..(groupCount(img) - 1) |->
              IF alpha(img, p) = 0 THEN 0
              ELSE pixelLuminance(red(img, p), green(img, p), blue(img, p))],
           0, groupCount(img) - 1)

\* and in totalSaturation, a double added to pass by pass
totalSaturation(img) ==
  DoubleSumRange([p \in 0..(groupCount(img) - 1) |->
                    IF alpha(img, p) = 0 THEN DoubleZero
                    ELSE pixelSaturation(red(img, p), green(img, p), blue(img, p))],
                 0, groupCount(img) - 1)

\* lines 68-79
analysisResult(averageLuminance, contrastLevel, averageSaturation) ==
  [averageLuminance |-> averageLuminance,
   contrastLevel |-> contrastLevel,
   saturationLevel |-> averageSaturation,
   recommendedBrightness |-> calculateBrightnessAdjustment(averageLuminance),
   recommendedContrast |-> calculateContrastAdjustment(contrastLevel),
   recommendedSaturation |-> calculateSaturationAdjustment(averageSaturation)]

\* analyzeImageHistogram: every number of the result is a double; the
\* averages of lines 61-62 divide by pixelCount = width * height
analyzeImageHistogram(img) ==
  analysisResult(
    DoubleDiv(DoubleFromInt(totalLuminance(img)), DoubleFromInt(img.width * img.height)),
    calculateContrastLevel(histogramLuminance(img)),
    DoubleDiv(totalSaturation(img), DoubleFromInt(img.width * img.height)))

---------------------------------------------------------------------------
(* Inputs of the histogram specification *)

\* the image whose pixel p has colour palette[f[p]]
PaintedImage(palette, w, h, f) ==
  [data |-> [i \in 0..(w * h * 4 - 1) |-> palette[f[i \div 4]][(i % 4) + 1]],
   width |-> w,
   height |-> h]

SolidImage(w, h, colour) ==
  [data |-> [i \in 0..(w * h * 4 - 1) |-> colour[(i % 4) + 1]],
   width |-> w,
   height |-> h]

\* a gray, a coloured fully transparent pixel and a translucent blue
HistPalette == << <<200, 200, 200, 255>>, <<255, 0, 0, 0>>, <<0, 100, 255, 128>> >>

ChannelLevels == {0, 100, 200, 255}

\* the colours of the channel levels, and one whose weighted sum 22.5 is a half
SolidColours ==
  {<<r, g, b, 255>> : r \in ChannelLevels, g \in ChannelLevels, b \in ChannelLevels}
  \cup {<<0, 36, 12, 255>>}

\* two reds of saturation 0.4 and 0.8
RedPalette == << <<250, 150, 150, 255>>, <<250, 50, 50, 255>> >>

HistImagesOfSize(w, h) == {PaintedImage(HistPalette, w, h, f) : f \in [0..(w * h - 1) -> 1..3]}

HistImages ==
  UNION {HistImagesOfSize(w, 1) : w \in 1..MaxHistPixels}
  \cup UNION {HistImagesOfSize(w, 2) : w \in 1..(MaxHistPixels \div 2)}
  \cup {SolidImage(s, s, colour) : s \in {1, 10}, colour \in SolidColours}
  \cup {PaintedImage(RedPalette, 2, 1, f) : f \in [0..1 -> 1..2]}

HistogramInit ==
  /\ CropIdle
  /\ ApplyIdle
  /\ SharpenIdle
  /\ PaletteIdle
  /\ StepIdle
  /\ LoaderIdle
  /\ HistoryIdle
  /\ pc = "histogram_start"
  /\ analysedImage \in HistImages
  /\ analysis = NotRun
  /\ sharpness = NotRun

\* analyzeImageHistogram(imageData)
AnalyzeImageHistogram ==
  /\ pc = "histogram_start"
  /\ analysis' = analyzeImageHistogram(analysedImage)
  /\ pc' = "histogram_done"
  /\ UNCHANGED <<analysedImage, sharpness>>
  /\ UNCHANGED <<cropVars, applyVars, sharpenVars, paletteVars, stepVars, loaderVars, historyVars>>

HistogramNext == AnalyzeImageHistogram

SpecHistogram == HistogramInit /\ [][HistogramNext]_vars

---------------------------------------------------------------------------
(* Properties of the histogram analysis *)

\* the analysed image with its fully transparent pixels removed, as one row
WithoutTransparent(img) ==
  LET kept == countedPixels(img)
      nth(n) == CHOOSE p \in kept : Cardinality({q \in kept : q < p}) = n
  IN  [data |-> [i \in 0..(Cardinality(kept) * 4 - 1) |-> img.data[4 * nth(i \div 4) + (i % 4)]],
       width |-> Cardinality(kept),
       height |-> 1]

\* C11: pixels with alpha 0 are excluded from every statistic, so
\* averageLuminance, saturationLevel and contrastLevel of an image equal
\* those of the same image with its fully transparent pixels removed.
TransparentPixelsExcluded ==
  (pc = "histogram_done" /\ countedPixels(analysedImage) # {}) =>
    LET alone == analyzeImageHistogram(WithoutTransparent(analysedImage))
    IN  /\ analysis.averageLuminance = alone.averageLuminance
        /\ analysis.saturationLevel = alone.saturationLevel
        /\ analysis.contrastLevel = alone.contrastLevel

\* the colour of pixel 0 when every pixel of the analysed image is that colour
\* and opaque
IsSolidOpaque ==
  \A p \in 0..(groupCount(analysedImage) - 1) :
    /\ alpha(analysedImage, p) = 255
    /\ \A c \in 0..2 : analysedImage.data[4 * p + c] = analysedImage.data[c]

\* C12: for an all-opaque image of one colour, averageLuminance is the
\* luminance formula 0.299 R + 0.587 G + 0.114 B of that colour rounded to
\* the nearest integer, and contrastLevel is 0.
SolidImageLuminanceAndContrast ==
  (pc = "histogram_done" /\ IsSolidOpaque) =>
    /\ \E nearest \in 0..255 :
         /\ analysis.averageLuminance = DoubleFromInt(nearest)
         /\ 2 * Abs(1000 * nearest
                    - (299 * red(analysedImage, 0) + 587 * green(analysedImage, 0)
                       + 114 * blue(analysedImage, 0))) <= 1000
    /\ analysis.contrastLevel = DoubleZero

\* C12 witness: the 10 x 10 image of (200, 200, 200) analysed to luminance 200
SolidGrayWitness ==
  /\ pc = "histogram_done"
  /\ IsSolidOpaque
  /\ analysedImage.width = 10
  /\ analysedImage.height = 10
  /\ \A c \in 0..2 : analysedImage.data[c] = 200
  /\ analysis.averageLuminance = DoubleFromInt(200)

\* a and b differ by less than 1e-9: the same number but for the rounding of
\* the sums and quotients that lead to them
DoubleNear(a, b) ==
  DoubleLess(DoubleAbs(DoubleSub(a, b)), DoubleLiteral(1, 1000000000))

\* C13 as stated: for an all-opaque image of one colour, saturationLevel is
\* the HSL saturation of that colour as rgbToHsl computes it, scaled to 0..1.
SolidImageSaturationIsHsl ==
  (pc = "histogram_done" /\ IsSolidOpaque) =>
    DoubleNear(analysis.saturationLevel,
               pixelSaturationHsl(red(analysedImage, 0), green(analysedImage, 0),
                                  blue(analysedImage, 0)))

\* C13: for an all-opaque image of one colour, saturationLevel is
\* (max - min) / max of that colour's R, G and B, and 0 when max is 0.
SolidImageSaturationIsChroma ==
  (pc = "histogram_done" /\ IsSolidOpaque) =>
    LET hi == Max2(red(analysedImage, 0), Max2(green(analysedImage, 0), blue(analysedImage, 0)))
        lo == Min2(red(analysedImage, 0), Min2(green(analysedImage, 0), blue(analysedImage, 0)))
    IN  IF hi = 0
        THEN analysis.saturationLevel = DoubleZero
        ELSE DoubleNear(analysis.saturationLevel, DoubleLiteral(hi - lo, hi))

\* C13 witness: the solid colour (200, 100, 100), whose HSL saturation is
\* 47.6 %, analysed to saturation 1/2
SolidPinkWitness ==
  /\ pc = "histogram_done"
  /\ IsSolidOpaque
  /\ red(analysedImage, 0) = 200
  /\ green(analysedImage, 0) = 100
  /\ blue(analysedImage, 0) = 100
  /\ DoubleNear(rgbToHsl(200, 100, 100)[2], DoubleLiteral(1000, 21))
  /\ analysis.saturationLevel = DoubleLiteral(1, 2)

\* C25: recommendedSaturation is 0 exactly when the mean saturation lies
\* between 0.4 and 0.6, both included; below 0.4 it is above 0 and at most
\* 40, above 0.6 it is below 0 and at least -20.
SaturationDeadZone ==
  pc = "histogram_done" =>
    LET mean == analysis.saturationLevel
        recommended == analysis.recommendedSaturation
        low == DoubleLiteral(4, 10)
        high == DoubleLiteral(6, 10)
    IN  /\ (recommended = DoubleZero) <=> (~DoubleLess(mean, low) /\ ~DoubleLess(high, mean))
        /\ DoubleLess(mean, low) =>
             (DoubleLess(DoubleZero, recommended)
              /\ ~DoubleLess(DoubleFromInt(40), recommended))
        /\ DoubleLess(high, mean) =>
             (DoubleLess(recommended, DoubleZero)
              /\ ~DoubleLess(recommended, DoubleFromInt(-20)))

\* C25 witness: a mean saturation of exactly 0.6, the upper end of the dead
\* zone, with no adjustment recommended
DeadZoneEndWitness ==
  /\ pc = "histogram_done"
  /\ analysis.saturationLevel = DoubleLiteral(6, 10)
  /\ analysis.recommendedSaturation = DoubleZero

---------------------------------------------------------------------------
(* Colour palette extraction: extractColorPalette (services/colorAnalysis.ts) *)
(* A ColorRGB is a record [r, g, b].  Array positions are counted from 1,   *)
(* so pixels[j] of the source is pixels[j + 1] here.  Every Math.random()   *)
(* call is a choice among the outcomes it can lead to.                      *)

\* colorDistance(c1, c2) before Math.sqrt: a whole number.  The roots are
\* compared with each other and with the threshold 1, which the sums of
\* squares decide, or squared again (line 111, minDistanceSquared).
colorDistanceSquared(c1, c2) ==
  (c1.r - c2.r) * (c1.r - c2.r) + (c1.g - c2.g) * (c1.g - c2.g) + (c1.b - c2.b) * (c1.b - c2.b)

\* lightness < 5 || lightness > 95 for the lightness l * 100 of rgbToHsl
lightnessOutside(lightness) ==
  DoubleLess(lightness, DoubleFromInt(5)) \/ DoubleLess(DoubleFromInt(95), lightness)

\* lines 83-84
lightnessIsNoise(r, g, b) == lightnessOutside(rgbToHsl(r, g, b)[3])

\* Math.max(1, Math.floor(totalPixels / maxSamples)), line 68
samplingInterval(img, maxSamples_) == Max2(1, (img.width * img.height) \div maxSamples_)

\* the pixel numbers i / 4 the loop of line 72 visits, in order
visitedPixels(img, maxSamples_) ==
  [n \in 1..((groupCount(img) + samplingInterval(img, maxSamples_) - 1)
               \div samplingInterval(img, maxSamples_)) |->
     (n - 1) * samplingInterval(img, maxSamples_)]

\* the pixel numbers of S in the order the loop reaches them
inLoopOrder(S) ==
  [n \in 1..Cardinality(S) |-> CHOOSE p \in S : Cardinality({q \in S : q < p}) = n - 1] \o << >>

\* samples.push({ r, g, b }) for each of the pixel numbers of kept, line 86
pushedSamples(img, kept) ==
  [n \in 1..Len(kept) |->
     [r |-> red(img, kept[n]), g |-> green(img, kept[n]), b |-> blue(img, kept[n])]] \o << >>

\* a variant without the lightness test of lines 83-84
samplePixelsKeepNoise(img, maxSamples_) ==
  pushedSamples(img,
    inLoopOrder({p \in {visitedPixels(img, maxSamples_)[n] :
                          n \in DOMAIN visitedPixels(img, maxSamples_)} :
                   ~(alpha(img, p) < 128)}))

\* samplePixels, lines 65-90: the visited pixels that pass the tests of lines
\* 76 and 84
samplePixels(img, maxSamples_) ==
  pushedSamples(img,
    inLoopOrder({p \in {visitedPixels(img, maxSamples_)[n] :
                          n \in DOMAIN visitedPixels(img, maxSamples_)} :
                   /\ ~(alpha(img, p) < 128)
                   /\ ~lightnessIsNoise(red(img, p), green(img, p), blue(img, p))}))

\* a red, a green, a blue at alpha 128, a green at alpha 127 and a near-white
PaletteColours ==
  << <<200, 30, 30, 255>>, <<30, 200, 30, 255>>, <<30, 30, 200, 128>>,
     <<30, 200, 30, 127>>, <<250, 250, 250, 255>> >>

\* three reds whose means lie at distance 1 and sqrt(2) from the first
NearColours ==
  << <<200, 30, 30, 255>>, <<202, 30, 30, 255>>, <<202, 32, 30, 255>> >>

\* two colours of vibrancy 100 * 100 / 255 whose double vibrancies differ in
\* the last bits: 39.21568627450979 for the first, 39.21568627450981 for the
\* second
TiedColours ==
  << <<200, 100, 100, 255>>, <<100, 0, 0, 255>> >>

\* the double Math.sqrt(sum) * Math.sqrt(sum), as line 111 squares the
\* distance colorDistance returned for the whole number sum
rootSquared(sum) ==
  LET minDistance == DoubleSqrt(DoubleFromInt(sum))
  IN  DoubleMul(minDistance, minDistance)

\* rootSquared of the sums between two of the colours above, worked out once
knownRootsSquared ==
  LET colours == {[r |-> c[1], g |-> c[2], b |-> c[3]] :
                    c \in {PaletteColours[i] : i \in 1..Len(PaletteColours)}
                          \cup {NearColours[i] : i \in 1..Len(NearColours)}}
  IN  {<<sum, rootSquared(sum)>> :
         sum \in {colorDistanceSquared(c1, c2) : c1 \in colours, c2 \in colours}}

\* minDistance * minDistance of line 111 for the smallest sum of squares
minDistanceSquared(nearest) ==
  IF \E known \in knownRootsSquared : known[1] = nearest
  THEN (CHOOSE known \in knownRootsSquared : known[1] = nearest)[2]
  ELSE rootSquared(nearest)

\* distances of lines 105-113: for each pixel the square of its distance to
\* the nearest centroid, as doubles.  Math.sqrt never reverses an order, so
\* the smallest distance is the root of the smallest sum of squares.
seedDistances(pixels_, centroids_) ==
  [j \in 1..Len(pixels_) |->
     minDistanceSquared(
       SetMin({colorDistanceSquared(pixels_[j], centroids_[c]) : c \in 1..Len(centroids_)}))]
  \o << >>

\* cumulativeDistance after each pass of the loop of lines 119-125; the last
\* one is totalDistance, which line 112 adds up in the same order
RECURSIVE cumulativeDistances(_)
cumulativeDistances(distances) ==
  IF distances = << >> THEN << >>
  ELSE LET earlier == cumulativeDistances(SubSeq(distances, 1, Len(distances) - 1))
       IN  Append(earlier,
                  DoubleAdd(IF earlier = << >> THEN DoubleZero ELSE earlier[Len(earlier)],
                            distances[Len(distances)]))

\* Values of Math.random() that lead to every outcome of the loop of lines
\* 119-125: 0, and for every pixel at a positive distance one that puts
\* randomValue in the middle of (cumulative[j - 1], cumulative[j]] and one
\* that puts it at or next to cumulative[j] when more pixels follow.
randomDraws(distances) ==
  LET cumulative == cumulativeDistances(distances)
      totalDistance == cumulative[Len(cumulative)]
      positive == {j \in 1..Len(distances) : distances[j] # DoubleZero}
      middle(j) == DoubleMul(DoubleHalf,
                             DoubleAdd(IF j = 1 THEN DoubleZero ELSE cumulative[j - 1],
                                       cumulative[j]))
  IN  {DoubleZero}
      \cup {DoubleDiv(middle(j), totalDistance) : j \in positive}
      \cup {DoubleDiv(cumulative[j], totalDistance) :
               j \in {i \in positive : cumulative[i] # totalDistance}}

\* a variant whose test is cumulativeDistance > randomValue
nextCentroidIndexStrict(distances, randomValue) ==
  LET cumulative == cumulativeDistances(distances)
      hits == {j \in 1..Len(distances) : DoubleLess(randomValue, cumulative[j])}
  IN  IF hits = {} THEN 0 ELSE SetMin(hits)

\* the loop of lines 119-125: the first j with cumulativeDistance >= randomValue,
\* 0 when the loop ends without a push
nextCentroidIndex(distances, randomValue) ==
  LET cumulative == cumulativeDistances(distances)
      hits == {j \in 1..Len(distances) : ~DoubleLess(cumulative[j], randomValue)}
  IN  IF hits = {} THEN 0 ELSE SetMin(hits)

\* lines 115-125 for the distances of one pass, where random is the value
\* Math.random() returns at line 116: the centroids after the pass
pushDrawnCentroid(pixels_, centroids_, distances, random) ==
  LET cumulative == cumulativeDistances(distances)
      randomValue == DoubleMul(random, cumulative[Len(cumulative)])
      j == nextCentroidIndex(distances, randomValue)
  IN  IF j = 0 THEN centroids_ ELSE Append(centroids_, pixels_[j])

\* one pass of the loop of line 100
pushNextCentroid(pixels_, centroids_, random) ==
  pushDrawnCentroid(pixels_, centroids_, seedDistances(pixels_, centroids_), random)

\* a variant that keeps the last centroid at the smallest distance
assignPixelsToClustersLast(pixels_, centroids_) ==
  [n \in 1..Len(pixels_) |->
     IF centroids_ = <<>> THEN 1
     ELSE SetMax({c \in 1..Len(centroids_) :
                    \A o \in 1..Len(centroids_) :
                      colorDistanceSquared(pixels_[n], centroids_[c])
                        <= colorDistanceSquared(pixels_[n], centroids_[o])})]

\* clusterIndex of every pixel: the first centroid at the smallest distance
assignPixelsToClusters(pixels_, centroids_) ==
  [n \in 1..Len(pixels_) |->
     IF centroids_ = <<>> THEN 1
     ELSE SetMin({c \in 1..Len(centroids_) :
                    \A o \in 1..Len(centroids_) :
                      colorDistanceSquared(pixels_[n], centroids_[c])
                        <= colorDistanceSquared(pixels_[n], centroids_[o])})]

\* the clusters that updateCentroids refills with a random pixel (line 156)
emptyClusters(assignments, k_) == {i \in 1..k_ : \A n \in 1..Len(assignments) : assignments[n] # i}

\* updateCentroids, where randomPixel[i] is the pixel position drawn at
\* line 158 for the empty cluster i
updateCentroids(pixels_, assignments, k_, randomPixel) ==
  [i \in 1..k_ |->
     IF i \in emptyClusters(assignments, k_)
     THEN pixels_[randomPixel[i]]
     ELSE LET members == {n \in 1..Len(pixels_) : assignments[n] = i}
              count == Cardinality(members)
          IN  [r |-> MathRound(SumOver(members, [n \in members |-> pixels_[n].r]), count),
               g |-> MathRound(SumOver(members, [n \in members |-> pixels_[n].g]), count),
               b |-> MathRound(SumOver(members, [n \in members |-> pixels_[n].b]), count)]]

\* a variant that stops only when no centroid moved at all
centroidsConvergedUnmoved(oldCentroids, newCentroids) ==
  \A i \in 1..Len(oldCentroids) : ~(colorDistanceSquared(oldCentroids[i], newCentroids[i]) > 0)

\* centroidsConverged with the default threshold 1
centroidsConverged(oldCentroids, newCentroids) ==
  \A i \in 1..Len(oldCentroids) : ~(colorDistanceSquared(oldCentroids[i], newCentroids[i]) > 1)

\* sat * (1 - Math.abs(light - 50) / 50) for the [h, sat, light] of rgbToHsl,
\* lines 194-195
vibrancyOfHsl(hsl) ==
  DoubleMul(hsl[2],
            DoubleSub(DoubleFromInt(1),
                      DoubleDiv(DoubleAbs(DoubleSub(hsl[3], DoubleFromInt(50))),
                                DoubleFromInt(50))))

\* vibrancyA of lines 190-194 for the colour a
vibrancy(c) == vibrancyOfHsl(rgbToHsl(c.r, c.g, c.b))

\* a variant that returns the centroids in cluster order
sortColorsByVibrancyKeepOrder(colors_) == colors_

\* the place of colour n in the sorted array: after every colour of a higher
\* vibrancy and after the earlier colours of the same vibrancy
sortedPlace(vibrancies, n) ==
  1 + Cardinality({m \in 1..Len(vibrancies) :
                     \/ DoubleLess(vibrancies[n], vibrancies[m])
                     \/ m < n /\ ~DoubleLess(vibrancies[m], vibrancies[n])})

\* colors.sort with a comparator that is negative exactly when vibrancies[a] is
\* the higher double: Array.prototype.sort is stable, so the order is the
\* descending one with equal doubles in their order of arrival
sortedByVibrancy(colors_, vibrancies) ==
  [k \in 1..Len(colors_) |->
     colors_[CHOOSE n \in 1..Len(colors_) : sortedPlace(vibrancies, n) = k]] \o << >>

\* colors.sort((a, b) => vibrancyB - vibrancyA), lines 189-198
sortColorsByVibrancy(colors_) ==
  sortedByVibrancy(colors_, [n \in 1..Len(colors_) |-> vibrancy(colors_[n])] \o << >>)

---------------------------------------------------------------------------
(* Inputs of the palette specification *)

\* every one-row image up to MaxPalettePixels pixels, the 3 x 2 images
\* whose pixel p has colour number (a * p + c0) mod 5, and the two-pixel
\* images of near colours and of colours of the same exact vibrancy
PaletteImages ==
  UNION {{PaintedImage(PaletteColours, w, 1, f) : f \in [0..(w - 1) -> 1..5]} :
           w \in 1..MaxPalettePixels}
  \cup {PaintedImage(PaletteColours, 3, 2, [p \in 0..5 |-> ((a * p + c0) % 5) + 1]) :
          a \in 0..4, c0 \in 0..4}
  \cup {PaintedImage(NearColours, 2, 1, f) : f \in [0..1 -> 1..3]}
  \cup {PaintedImage(TiedColours, 2, 1, f) : f \in [0..1 -> 1..2]}

PaletteInit ==
  /\ CropIdle
  /\ ApplyIdle
  /\ SharpenIdle
  /\ StepIdle
  /\ LoaderIdle
  /\ HistoryIdle
  /\ pc = "palette_start"
  /\ analysedImage \in PaletteImages
  /\ analysis = NotRun
  /\ sharpness = NotRun
  /\ clusterCount \in 1..MaxClusters
  /\ maxIterations \in 0..MaxIterations
  /\ maxSamples \in {2, DefaultMaxSamples}
  /\ pixels = <<>>
  /\ centroids = <<>>
  /\ seedIndex = 0
  /\ iteration = 0
  /\ converged = FALSE
  /\ colors = NotRun

\* what follows once the loop of line 100 has run i times with centroids_:
\* the next pass, the K-means loop, or, when maxIterations is 0, the return
AfterSeeding(i, centroids_) ==
  /\ centroids' = centroids_
  /\ seedIndex' = i
  /\ IF i < clusterCount
     THEN pc' = "palette_seed" /\ colors' = colors
     ELSE IF maxIterations > 0
     THEN pc' = "palette_loop" /\ colors' = colors
     ELSE pc' = "palette_done" /\ colors' = sortColorsByVibrancy(centroids')

\* lines 213-220: too few samples
ExtractFails ==
  /\ pc = "palette_start"
  /\ pixels' = samplePixels(analysedImage, maxSamples)
  /\ Len(pixels') < clusterCount
  /\ pc' = "palette_error"
  /\ UNCHANGED <<clusterCount, maxIterations, maxSamples, centroids, seedIndex, iteration,
                 converged, colors>>
  /\ UNCHANGED <<cropVars, applyVars, sharpenVars, analysisVars, stepVars, loaderVars, historyVars>>

\* lines 213-223 and 97: sampling and the first centroid
SeedFirstCentroid ==
  /\ pc = "palette_start"
  /\ pixels' = samplePixels(analysedImage, maxSamples)
  /\ ~(Len(pixels') < clusterCount)
  /\ \E j \in 1..Len(pixels') : AfterSeeding(1, <<pixels'[j]>>)
  /\ UNCHANGED <<clusterCount, maxIterations, maxSamples, iteration, converged>>
  /\ UNCHANGED <<cropVars, applyVars, sharpenVars, analysisVars, stepVars, loaderVars, historyVars>>

\* one pass of the loop of lines 100-126
SeedNextCentroid ==
  /\ pc = "palette_seed"
  /\ LET distances == seedDistances(pixels, centroids)
     IN  \E random \in randomDraws(distances) :
           AfterSeeding(seedIndex + 1, pushDrawnCentroid(pixels, centroids, distances, random))
  /\ UNCHANGED <<clusterCount, maxIterations, maxSamples, pixels, iteration, converged>>
  /\ UNCHANGED <<cropVars, applyVars, sharpenVars, analysisVars, stepVars, loaderVars, historyVars>>

\* one pass of the loop of lines 227-246, with the return when it is the last
IterateKMeans ==
  /\ pc = "palette_loop"
  /\ iteration < maxIterations
  /\ LET assignments == assignPixelsToClusters(pixels, centroids)
     IN  \E randomPixel \in [emptyClusters(assignments, clusterCount) -> 1..Len(pixels)] :
           LET newCentroids == updateCentroids(pixels, assignments, clusterCount, randomPixel)
           IN  /\ centroids' = newCentroids
               /\ converged' = centroidsConverged(centroids, newCentroids)
               /\ iteration' = IF converged' THEN iteration ELSE iteration + 1
               /\ IF converged' \/ iteration' = maxIterations
                  THEN pc' = "palette_done" /\ colors' = sortColorsByVibrancy(centroids')
                  ELSE pc' = "palette_loop" /\ colors' = colors
  /\ UNCHANGED <<clusterCount, maxIterations, maxSamples, pixels, seedIndex>>
  /\ UNCHANGED <<cropVars, applyVars, sharpenVars, analysisVars, stepVars, loaderVars, historyVars>>

PaletteNext == ExtractFails \/ SeedFirstCentroid \/ SeedNextCentroid \/ IterateKMeans

SpecPalette == PaletteInit /\ [][PaletteNext]_vars

---------------------------------------------------------------------------
(* Properties of the palette extraction *)

\* the working set as the specification describes it: the visited pixels with
\* alpha >= 128 and HSL lightness within [5 %, 95 %]
WorkingSet ==
  {p \in {n * samplingInterval(analysedImage, maxSamples) : n \in 0..(groupCount(analysedImage) - 1)}
         \cap (0..(groupCount(analysedImage) - 1)) :
     /\ alpha(analysedImage, p) >= 128
     /\ LET hi == Max2(red(analysedImage, p), Max2(green(analysedImage, p), blue(analysedImage, p)))
            lo == Min2(red(analysedImage, p), Min2(green(analysedImage, p), blue(analysedImage, p)))
        IN  2 * 255 * 5 <= 100 * (hi + lo) /\ 100 * (hi + lo) <= 2 * 255 * 95}

\* C14: extractColorPalette fails exactly when the working set has fewer
\* than k members; with k or more members it does not fail.
FailsExactlyWhenTooFewSamples ==
  pc # "palette_start" =>
    ((pc = "palette_error") <=> (Cardinality(WorkingSet) < clusterCount))

\* C14 witness: an image with at least k pixels of which fewer than k are in
\* the working set, rejected
TooFewSamplesWitness ==
  /\ pc = "palette_error"
  /\ groupCount(analysedImage) >= clusterCount
  /\ maxSamples = DefaultMaxSamples
  /\ Cardinality(WorkingSet) = clusterCount - 1
  /\ Cardinality(WorkingSet) > 0

\* C15: on success the returned colors array has exactly k entries, for
\* every maxIterations >= 0 and every outcome of the random draws.
PaletteHasKColors ==
  pc = "palette_done" => Len(colors) = clusterCount

\* C15 witness: a working set of one colour only, two or more clusters and
\* every seeding draw after the first equal to 0
SameColourPaletteWitness ==
  /\ pc = "palette_done"
  /\ clusterCount >= 2
  /\ Len(pixels) >= clusterCount
  /\ \A n \in 1..Len(pixels) : pixels[n] = pixels[1]
  /\ Len(colors) = clusterCount
  /\ \A n \in 1..Len(colors) : colors[n] = pixels[1]

\* the working set holds exactly k distinct colours, pairwise far apart
FlatColourWorkingSet ==
  /\ Cardinality({pixels[n] : n \in 1..Len(pixels)}) = clusterCount
  /\ \A m \in 1..Len(pixels) : \A n \in 1..Len(pixels) :
       pixels[m] # pixels[n] => colorDistanceSquared(pixels[m], pixels[n]) >= 100 * 100

\* C16: when the working set consists of exactly k distinct far-apart flat
\* colours, the extraction converges within maxIterations and every one of
\* the k colours has a returned centroid within 2 per channel, for every
\* outcome of the random draws.
FlatColoursRecovered ==
  (pc = "palette_done" /\ maxIterations >= 1 /\ FlatColourWorkingSet) =>
    /\ converged
    /\ \A n \in 1..Len(pixels) : \E c \in 1..Len(colors) :
         /\ Abs(colors[c].r - pixels[n].r) <= 2
         /\ Abs(colors[c].g - pixels[n].g) <= 2
         /\ Abs(colors[c].b - pixels[n].b) <= 2

\* s and t hold the same colours, each as many times
SameColours(s, t) ==
  /\ Len(s) = Len(t)
  /\ \A n \in 1..Len(s) :
       Cardinality({m \in 1..Len(s) : s[m] = s[n]}) = Cardinality({m \in 1..Len(t) : t[m] = s[n]})

\* C22: the K-means loop runs at most maxIterations rounds; a round in which
\* every centroid moved by a Euclidean distance of at most 1 is the last one
\* and its recomputed centroids are the ones returned; a round in which some
\* centroid moved by more than 1 is the last only when it is round
\* maxIterations.
KMeansStopsAtConvergence ==
  [][pc = "palette_loop" =>
       LET settled == \A i \in 1..Len(centroids) :
                        colorDistanceSquared(centroids[i], centroids'[i]) <= 1
       IN  /\ iteration < maxIterations
           /\ Len(centroids') = Len(centroids)
           /\ settled => /\ pc' = "palette_done"
                          /\ iteration' = iteration
                          /\ SameColours(colors', centroids')
           /\ ~settled => /\ iteration' = iteration + 1
                           /\ pc' = IF iteration' = maxIterations
                                     THEN "palette_done" ELSE "palette_loop"]_vars

\* C22 witness: one cluster seeded at one of two reds two levels apart; the
\* first of two rounds moves the centroid by exactly 1 and is the last
StopsAtFirstSettledRoundWitness ==
  /\ pc = "palette_done"
  /\ clusterCount = 1
  /\ maxIterations = 2
  /\ iteration = 0
  /\ converged
  /\ Len(pixels) = 2
  /\ \A n \in 1..2 : colorDistanceSquared(pixels[n], centroids[1]) = 1
  /\ colors = centroids

\* the samples whose nearest centroid is number i, the lowest index winning
\* among centroids at the same distance
NearestSamples(i) ==
  {n \in 1..Len(pixels) :
     /\ \A o \in 1..Len(centroids) :
          colorDistanceSquared(pixels[n], centroids[i]) <= colorDistanceSquared(pixels[n], centroids[o])
     /\ \A o \in 1..(i - 1) :
          colorDistanceSquared(pixels[n], centroids[i]) < colorDistanceSquared(pixels[n], centroids[o])}

\* value is a nearest integer to total / count
IsRoundedMean(value, total, count) == Abs(2 * total - 2 * count * value) <= count

\* C23: in one K-means round every sample goes to a centroid at minimal
\* distance, the lowest index among equidistant ones; a cluster that received
\* samples gets the per-channel mean of them rounded to the nearest integer,
\* a cluster that received none gets the colour of a member of the working
\* set.
KMeansRound ==
  [][pc = "palette_loop" =>
       \A i \in 1..clusterCount :
         IF NearestSamples(i) = {}
         THEN \E n \in 1..Len(pixels) : centroids'[i] = pixels[n]
         ELSE /\ IsRoundedMean(centroids'[i].r,
                                SumOver(NearestSamples(i), [n \in NearestSamples(i) |-> pixels[n].r]),
                                Cardinality(NearestSamples(i)))
              /\ IsRoundedMean(centroids'[i].g,
                                SumOver(NearestSamples(i), [n \in NearestSamples(i) |-> pixels[n].g]),
                                Cardinality(NearestSamples(i)))
              /\ IsRoundedMean(centroids'[i].b,
                                SumOver(NearestSamples(i), [n \in NearestSamples(i) |-> pixels[n].b]),
                                Cardinality(NearestSamples(i)))]_vars

\* C23 witness: three distinct samples and two clusters after a single
\* round; the sample at the same distance from both seeds went to the first,
\* whose centroid is now a mean and no sample, the second kept its seed
EquidistantSampleWitness ==
  /\ pc = "palette_done"
  /\ maxIterations = 1
  /\ clusterCount = 2
  /\ Len(pixels) = 3
  /\ Cardinality({pixels[n] : n \in 1..3}) = 3
  /\ \A n \in 1..3 : centroids[1] # pixels[n]
  /\ \E n \in 1..3 : centroids[2] = pixels[n]

\* C24: the returned colors are the final centroids reordered so that the
\* vibrancy score saturation * (1 - |lightness - 50| / 50) never increases
\* from one color to the next.
ColorsOrderedByVibrancy ==
  pc = "palette_done" =>
    /\ SameColours(colors, centroids)
    /\ \A n \in 1..(Len(colors) - 1) : ~DoubleLess(vibrancy(colors[n]), vibrancy(colors[n + 1]))

\* C24 witness: final centroids whose more vibrant colour came second and
\* is returned first
ReorderedPaletteWitness ==
  /\ pc = "palette_done"
  /\ clusterCount = 2
  /\ DoubleLess(vibrancy(centroids[1]), vibrancy(centroids[2]))
  /\ colors = <<centroids[2], centroids[1]>>

\* C27: the number of samples collected by samplePixels, reported as
\* totalPixelsAnalyzed, never exceeds maxSamples.
SamplesWithinMaxSamples ==
  pc \in {"palette_seed", "palette_loop", "palette_done", "palette_error"} =>
    Len(pixels) <= maxSamples

---------------------------------------------------------------------------
(* Sharpness score: analyzeImageSharpness (imageSharpening)                *)
(* The result is NaN or [value |-> score] with the score a double.         *)

NaN == [nan |-> TRUE]

\* data[((y + dy) * width + (x + dx)) * 4]: the red byte of a neighbour
neighbourByte(img, x, y, dx, dy) == img.data[((y + dy) * img.width + (x + dx)) * 4]

\* lines 220-222
sobelGx(img, x, y) ==
  -1 * neighbourByte(img, x, y, -1, -1) + 1 * neighbourByte(img, x, y, 1, -1)
  + -2 * neighbourByte(img, x, y, -1, 0) + 2 * neighbourByte(img, x, y, 1, 0)
  + -1 * neighbourByte(img, x, y, -1, 1) + 1 * neighbourByte(img, x, y, 1, 1)

\* lines 224-225
sobelGy(img, x, y) ==
  -1 * neighbourByte(img, x, y, -1, -1) - 2 * neighbourByte(img, x, y, 0, -1)
  - 1 * neighbourByte(img, x, y, 1, -1)
  + 1 * neighbourByte(img, x, y, -1, 1) + 2 * neighbourByte(img, x, y, 0, 1)
  + 1 * neighbourByte(img, x, y, 1, 1)

\* the pixels the loops of lines 209-210 reach and line 214 does not skip
scoredPixels(img) ==
  {xy \in (1..(img.width - 2)) \X (1..(img.height - 2)) :
     ~(img.data[(xy[2] * img.width + xy[1]) * 4 + 3] < 128)}

\* the same pixels in the order the loops reach them: row by row
scoredInOrder(img) ==
  LET reached == [n \in 1..((img.width - 2) * (img.height - 2)) |->
                    <<1 + ((n - 1) % (img.width - 2)), 1 + ((n - 1) \div (img.width - 2))>>]
      scored(xy) == xy \in scoredPixels(img)
  IN  IF img.width < 3 \/ img.height < 3 THEN << >> ELSE SelectSeq(reached, scored)

\* Math.sqrt(gx * gx + gy * gy), line 227
edgeMagnitude(img, x, y) ==
  DoubleSqrt(DoubleFromInt(sobelGx(img, x, y) * sobelGx(img, x, y)
                           + sobelGy(img, x, y) * sobelGy(img, x, y)))

\* edgeStrength after the loops: the magnitudes added one by one to 0
edgeStrength(img, order) ==
  DoubleSumRange([n \in 1..Len(order) |-> edgeMagnitude(img, order[n][1], order[n][2])],
                 1, Len(order))

\* lines 232-235.  0 / 0 is NaN, and Math.max and Math.min return NaN for a
\* NaN argument.
analyzeImageSharpness(img) ==
  IF scoredPixels(img) = {} THEN NaN
  ELSE [value |->
          DoubleMin(DoubleFromInt(100),
                    DoubleMax(DoubleZero,
                              DoubleDiv(DoubleDiv(edgeStrength(img, scoredInOrder(img)),
                                                  DoubleFromInt(Cardinality(scoredPixels(img)))),
                                        DoubleFromInt(3))))]

---------------------------------------------------------------------------
(* Inputs of the sharpness specification *)

\* colours of one red value: edges between them are in green and blue only
GreenBluePalette ==
  << <<50, 0, 0, 255>>, <<50, 200, 0, 255>>, <<50, 0, 200, 128>>, <<50, 200, 200, 127>> >>

\* black and three reds, opaque
RedLevels == << <<0, 0, 0, 255>>, <<1, 0, 0, 255>>, <<10, 0, 0, 255>>, <<255, 0, 0, 255>> >>

\* the images of the sharpening specification, images of GreenBluePalette
\* whose pixel (x, y) has colour number (a * x + b * y + c0) mod 4, and the
\* 3 x 3 black images with one red in a corner or in the middle of a side
SharpnessImages ==
  InputImages
  \cup {PaintedImage(RedLevels, 3, 3, [p \in 0..8 |-> IF p = at THEN level ELSE 1]) :
          at \in {5, 7, 8}, level \in 2..4}
  \cup {PaintedImage(GreenBluePalette, w, h,
                     [p \in 0..(w * h - 1) |-> ((a * (p % w) + b * (p \div w) + c0) % 4) + 1]) :
          w \in 1..MaxImageWidth, h \in 1..MaxImageHeight, a \in 0..3, b \in 0..3, c0 \in 0..3}

SharpnessInit ==
  /\ CropIdle
  /\ ApplyIdle
  /\ SharpenIdle
  /\ PaletteIdle
  /\ StepIdle
  /\ LoaderIdle
  /\ HistoryIdle
  /\ pc = "sharpness_start"
  /\ analysedImage \in SharpnessImages
  /\ analysis = NotRun
  /\ sharpness = NotRun

\* analyzeImageSharpness(imageData)
AnalyzeImageSharpness ==
  /\ pc = "sharpness_start"
  /\ sharpness' = analyzeImageSharpness(analysedImage)
  /\ pc' = "sharpness_done"
  /\ UNCHANGED <<analysedImage, analysis>>
  /\ UNCHANGED <<cropVars, applyVars, sharpenVars, paletteVars, stepVars, loaderVars, historyVars>>

SharpnessNext == AnalyzeImageSharpness

SpecSharpness == SharpnessInit /\ [][SharpnessNext]_vars

---------------------------------------------------------------------------
(* Properties of the sharpness score *)

\* C17: analyzeImageSharpness returns a number within [0, 100] for every
\* image, also when no interior pixel exists or every interior pixel has
\* alpha < 128.
SharpnessInRange ==
  pc = "sharpness_done" =>
    /\ "value" \in DOMAIN sharpness
    /\ ~DoubleLess(sharpness.value, DoubleZero)
    /\ ~DoubleLess(DoubleFromInt(100), sharpness.value)

\* 1000 times the grayscale value 0.299 R + 0.587 G + 0.114 B of a neighbour
neighbourGray(img, x, y, dx, dy) ==
  299 * img.data[((y + dy) * img.width + (x + dx)) * 4]
  + 587 * img.data[((y + dy) * img.width + (x + dx)) * 4 + 1]
  + 114 * img.data[((y + dy) * img.width + (x + dx)) * 4 + 2]

\* whether the Sobel gradient of the grayscale values is non-zero at (x, y)
HasGrayGradient(img, x, y) ==
  \/ -1 * neighbourGray(img, x, y, -1, -1) + 1 * neighbourGray(img, x, y, 1, -1)
     + -2 * neighbourGray(img, x, y, -1, 0) + 2 * neighbourGray(img, x, y, 1, 0)
     + -1 * neighbourGray(img, x, y, -1, 1) + 1 * neighbourGray(img, x, y, 1, 1) # 0
  \/ -1 * neighbourGray(img, x, y, -1, -1) - 2 * neighbourGray(img, x, y, 0, -1)
     - 1 * neighbourGray(img, x, y, 1, -1)
     + 1 * neighbourGray(img, x, y, -1, 1) + 2 * neighbourGray(img, x, y, 0, 1)
     + 1 * neighbourGray(img, x, y, 1, 1) # 0

\* C18: the gradients are taken from the grayscale values of the eight
\* neighbours, so an image with a grayscale edge at a scored pixel, an edge
\* in the green or blue channel only included, scores above 0.
GrayEdgesScoreAboveZero ==
  (/\ pc = "sharpness_done"
   /\ \E xy \in scoredPixels(analysedImage) : HasGrayGradient(analysedImage, xy[1], xy[2])) =>
    /\ "value" \in DOMAIN sharpness
    /\ DoubleLess(DoubleZero, sharpness.value)

---------------------------------------------------------------------------
(* The padding, aspect-ratio and minimum-size steps of                     *)
(* findOptimalCropBounds on their own: each is applied to a box of whole   *)
(* pixels inside the image.                                                *)

\* sides of the boxes: the small ones, and 33 and 100, the sides of the
\* smallest whole-pixel box whose ratio is at least 0.33 and below 0.333
StepSides == (1..MaxStepSide) \cup {33, 100}

\* sides of the images
StepImageSides == {MaxStepSide, 100}

\* the boxes of whole pixels inside a w x h image that touch an edge or lie
\* one or two pixels from the left or top edge
StepBoxes(w, h) ==
  {Rect(r[1], r[2], r[3], r[4]) :
     r \in {q \in (0..w) \X (0..h) \X StepSides \X StepSides :
              /\ q[1] + q[3] <= w
              /\ q[2] + q[4] <= h
              /\ q[1] \in {0, 1, 2, w - q[3]}
              /\ q[2] \in {0, 1, 2, h - q[4]}}}

StepInit ==
  /\ ApplyIdle
  /\ SharpenIdle
  /\ AnalysisIdle
  /\ PaletteIdle
  /\ LoaderIdle
  /\ HistoryIdle
  /\ pc = "step_start"
  /\ width \in StepImageSides
  /\ height \in StepImageSides
  /\ segmentation = [i \in 0..0 |-> 0]
  /\ paddingPercentage \in PaddingPercentages
  /\ minCropSize = DefaultMinCropSize
  /\ cropBounds = Null
  /\ box \in StepBoxes(width, height)
  /\ boxOut = Null

\* applyCropPadding(bounds, width, height, paddingPercentage), line 165
PadBox ==
  /\ pc = "step_start"
  /\ boxOut' = applyCropPadding(box, width, height, paddingPercentage)
  /\ pc' = "step_padded"
  /\ UNCHANGED box
  /\ UNCHANGED <<cropVars, applyVars, sharpenVars, analysisVars, paletteVars, loaderVars, historyVars>>

\* lines 167-181 applied to a padded box
NormalizeBox ==
  /\ pc = "step_start"
  /\ boxOut' = normalizeAspectRatio(box)
  /\ pc' = "step_normalized"
  /\ UNCHANGED box
  /\ UNCHANGED <<cropVars, applyVars, sharpenVars, analysisVars, paletteVars, loaderVars, historyVars>>

\* lines 150-162 applied to a box
MinSizeBox ==
  /\ pc = "step_start"
  /\ boxOut' = ensureMinCropSize(box, minCropSize)
  /\ pc' = "step_sized"
  /\ UNCHANGED box
  /\ UNCHANGED <<cropVars, applyVars, sharpenVars, analysisVars, paletteVars, loaderVars, historyVars>>

StepNext == PadBox \/ NormalizeBox \/ MinSizeBox

SpecStep == StepInit /\ [][StepNext]_vars

---------------------------------------------------------------------------
(* Properties of the padding and aspect-ratio steps *)

\* twice the distance between the centres of two spans, each given by its
\* start and size
TwiceCentreShift(start, size, startOut, sizeOut) ==
  DoubleAbs(DoubleSub(DoubleAdd(DoubleMul(DoubleFromInt(2), startOut), sizeOut),
                      DoubleAdd(DoubleMul(DoubleFromInt(2), start), size)))

\* C19: padding expands the box by round(p * width) to the left and right and
\* round(p * height) to the top and bottom, each side clipped on its own: the
\* left edge is max(0, x - padX), the right edge min(imageWidth, x + width + padX),
\* and likewise for top and bottom.
PaddingClipsEachSide ==
  pc = "step_padded" =>
    LET padX == DoubleRounded(DoubleMul(DoubleLiteral(paddingPercentage, 100), box.width))
        padY == DoubleRounded(DoubleMul(DoubleLiteral(paddingPercentage, 100), box.height))
    IN  /\ boxOut.x = DoubleMax(DoubleZero, DoubleSub(box.x, padX))
        /\ DoubleAdd(boxOut.x, boxOut.width) =
             DoubleMin(DoubleFromInt(width), DoubleAdd(DoubleAdd(box.x, box.width), padX))
        /\ boxOut.y = DoubleMax(DoubleZero, DoubleSub(box.y, padY))
        /\ DoubleAdd(boxOut.y, boxOut.height) =
             DoubleMin(DoubleFromInt(height), DoubleAdd(DoubleAdd(box.y, box.height), padY))

\* C20: the box is squared exactly when width / height is above 3.0 or below
\* 0.333; the square has side min(width, height) and the centre of the box,
\* any other box is returned unchanged, and so every returned box has a
\* ratio within [0.333, 3.0].  The sides are whole, and so are their
\* products with 3, 333 and 1000.
AspectRatioRule ==
  pc = "step_normalized" =>
    /\ IF \/ DoubleLess(DoubleMul(DoubleFromInt(3), box.height), box.width)
          \/ DoubleLess(DoubleMul(DoubleFromInt(1000), box.width),
                        DoubleMul(DoubleFromInt(333), box.height))
       THEN /\ boxOut.width = DoubleMin(box.width, box.height)
            /\ boxOut.height = DoubleMin(box.width, box.height)
            /\ DoubleAtMost(TwiceCentreShift(box.x, box.width, boxOut.x, boxOut.width),
                            DoubleFromInt(1))
            /\ DoubleAtMost(TwiceCentreShift(box.y, box.height, boxOut.y, boxOut.height),
                            DoubleFromInt(1))
       ELSE boxOut = box
    /\ DoubleAtMost(boxOut.width, DoubleMul(DoubleFromInt(3), boxOut.height))
    /\ DoubleAtMost(DoubleMul(DoubleFromInt(333), boxOut.height),
                    DoubleMul(DoubleFromInt(1000), boxOut.width))

\* C21: a box with a dimension below minCropSize is scaled up by one factor
\* (up to rounding) so that both dimensions reach minCropSize, its centre
\* stays within one pixel unless the clamp at the left or top edge moved it,
\* and the enlarged box lies within an image that is large enough to hold
\* it; a box with both dimensions at least minCropSize is left unchanged.
MinSizeRule ==
  pc = "step_sized" =>
    IF \/ DoubleLess(box.width, DoubleFromInt(minCropSize))
       \/ DoubleLess(box.height, DoubleFromInt(minCropSize))
    THEN /\ DoubleAtMost(DoubleFromInt(minCropSize), boxOut.width)
         /\ DoubleAtMost(DoubleFromInt(minCropSize), boxOut.height)
         /\ DoubleAtMost(DoubleAbs(DoubleSub(DoubleMul(boxOut.width, box.height),
                                             DoubleMul(boxOut.height, box.width))),
                         DoubleMax(box.width, box.height))
         /\ DoubleLess(DoubleZero, boxOut.x) =>
              DoubleAtMost(TwiceCentreShift(box.x, box.width, boxOut.x, boxOut.width),
                           DoubleFromInt(2))
         /\ DoubleLess(DoubleZero, boxOut.y) =>
              DoubleAtMost(TwiceCentreShift(box.y, box.height, boxOut.y, boxOut.height),
                           DoubleFromInt(2))
         /\ (/\ width >= minCropSize
             /\ height >= minCropSize
             /\ DoubleAtMost(boxOut.width, DoubleFromInt(width))
             /\ DoubleAtMost(boxOut.height, DoubleFromInt(height))) =>
              /\ DoubleAtMost(DoubleZero, boxOut.x)
              /\ DoubleAtMost(DoubleZero, boxOut.y)
              /\ DoubleAtMost(DoubleAdd(boxOut.x, boxOut.width), DoubleFromInt(width))
              /\ DoubleAtMost(DoubleAdd(boxOut.y, boxOut.height), DoubleFromInt(height))
    ELSE boxOut = box

---------------------------------------------------------------------------
(* Model loader: loadBodyPixModel (services/backgroundRemover.ts).  A call  *)
(* runs without interruption from one await to the next; callerPc holds    *)
(* the await at which each call is suspended.  The object bodyPix.load     *)
(* resolves to is named after the call that loaded it.                     *)

\* the calls whose tf.ready / bodyPix.load sequence is under way
loadsInFlight == {c \in Callers : callerPc[c] \in {"tf_ready", "bodypix_load"}}

\* lines 14 and 21: if (model) return model; otherwise lines 24-28, up to
\* the await of tf.ready()
returnOrStartLoad(c) ==
  IF model # Null
  THEN /\ callerPc' = [callerPc EXCEPT ![c] = "returned"]
       /\ got' = [got EXCEPT ![c] = model]
       /\ UNCHANGED <<model, isLoading>>
  ELSE /\ isLoading' = TRUE
       /\ callerPc' = [callerPc EXCEPT ![c] = "tf_ready"]
       /\ got' = [got EXCEPT ![c] = NotRun]
       /\ UNCHANGED model

\* a call of loadBodyPixModel up to its first await or its return
CallLoad(c) ==
  /\ pc = "loader_run"
  /\ callerPc[c] \in {"idle", "returned", "threw"}
  /\ calls[c] < MaxCalls
  /\ calls' = [calls EXCEPT ![c] = @ + 1]
  /\ IF model = Null /\ isLoading
     THEN /\ callerPc' = [callerPc EXCEPT ![c] = "waiting"]
          /\ got' = [got EXCEPT ![c] = NotRun]
          /\ UNCHANGED <<model, isLoading>>
     ELSE returnOrStartLoad(c)
  /\ UNCHANGED <<pc, cropVars, applyVars, sharpenVars, analysisVars, paletteVars, stepVars,
                 historyVars>>

\* lines 18-21: the timer of a waiting call fires and isLoading is false; a
\* timer that fires while isLoading is true changes nothing
WaitEnds(c) ==
  /\ pc = "loader_run"
  /\ callerPc[c] = "waiting"
  /\ ~isLoading
  /\ returnOrStartLoad(c)
  /\ UNCHANGED calls
  /\ UNCHANGED <<pc, cropVars, applyVars, sharpenVars, analysisVars, paletteVars, stepVars,
                 historyVars>>

\* lines 28-38: tf.ready() resolves and bodyPix.load is called
TfReady(c) ==
  /\ pc = "loader_run"
  /\ callerPc[c] = "tf_ready"
  /\ callerPc' = [callerPc EXCEPT ![c] = "bodypix_load"]
  /\ UNCHANGED <<model, isLoading, calls, got>>
  /\ UNCHANGED <<pc, cropVars, applyVars, sharpenVars, analysisVars, paletteVars, stepVars,
                 historyVars>>

\* lines 33-41 and 46: bodyPix.load resolves
LoadSucceeds(c) ==
  /\ pc = "loader_run"
  /\ callerPc[c] = "bodypix_load"
  /\ model' = [loadedBy |-> c, call |-> calls[c]]
  /\ isLoading' = FALSE
  /\ callerPc' = [callerPc EXCEPT ![c] = "returned"]
  /\ got' = [got EXCEPT ![c] = model']
  /\ UNCHANGED calls
  /\ UNCHANGED <<pc, cropVars, applyVars, sharpenVars, analysisVars, paletteVars, stepVars,
                 historyVars>>

\* a variant without the finally block of lines 45-47
LoadFailsKeepsLoading(c) ==
  /\ pc = "loader_run"
  /\ callerPc[c] \in {"tf_ready", "bodypix_load"}
  /\ callerPc' = [callerPc EXCEPT ![c] = "threw"]
  /\ got' = [got EXCEPT ![c] = Threw]
  /\ UNCHANGED <<model, isLoading, calls>>
  /\ UNCHANGED <<pc, cropVars, applyVars, sharpenVars, analysisVars, paletteVars, stepVars,
                 historyVars>>

\* lines 42-47: tf.ready() or bodyPix.load rejects
LoadFails(c) ==
  /\ pc = "loader_run"
  /\ callerPc[c] \in {"tf_ready", "bodypix_load"}
  /\ isLoading' = FALSE
  /\ callerPc' = [callerPc EXCEPT ![c] = "threw"]
  /\ got' = [got EXCEPT ![c] = Threw]
  /\ UNCHANGED <<model, calls>>
  /\ UNCHANGED <<pc, cropVars, applyVars, sharpenVars, analysisVars, paletteVars, stepVars,
                 historyVars>>

LoaderInit ==
  /\ CropIdle
  /\ ApplyIdle
  /\ SharpenIdle
  /\ AnalysisIdle
  /\ PaletteIdle
  /\ StepIdle
  /\ LoaderIdle
  /\ HistoryIdle
  /\ pc = "loader_run"

LoaderNext ==
  \E c \in Callers :
    CallLoad(c) \/ WaitEnds(c) \/ TfReady(c) \/ LoadSucceeds(c) \/ LoadFails(c)

SpecLoader == LoaderInit /\ [][LoaderNext]_vars

\* every timer fires and every pending promise settles
SpecLoaderFair ==
  /\ SpecLoader
  /\ \A c \in Callers : WF_vars(WaitEnds(c))
  /\ \A c \in Callers : WF_vars(TfReady(c) \/ LoadSucceeds(c) \/ LoadFails(c))

---------------------------------------------------------------------------
(* Properties of the model loader *)

\* C29: under every interleaving of the callers at most one load is in
\* flight; isLoading is true exactly while a load is in flight, so it is
\* false after a failed load; once a model is loaded no load is started, the
\* model is never replaced and every returning call returns it; and a
\* waiting call ends its wait by starting a load or returning the model.
LoaderIsSingleFlight ==
  /\ [](pc = "loader_run" =>
          /\ Cardinality(loadsInFlight) <= 1
          /\ isLoading <=> (loadsInFlight # {})
          /\ model # Null => loadsInFlight = {}
          /\ \A c \in Callers : callerPc[c] = "returned" => (got[c] = model /\ model # Null))
  /\ [][model # Null => (model' = model /\ loadsInFlight' = {})]_vars
  /\ \A c \in Callers :
       (callerPc[c] = "waiting") ~> (callerPc[c] \in {"tf_ready", "returned"})

\* C29 witness: the load of caller 1 has failed while caller 2 waits:
\* isLoading is false again and caller 2 is about to start a fresh load
WaiterAfterFailedLoadWitness ==
  /\ pc = "loader_run"
  /\ callerPc[1] = "threw"
  /\ callerPc[2] = "waiting"
  /\ ~isLoading
  /\ model = Null

---------------------------------------------------------------------------
(* Undo history of the editor (useImageEditor): every call of setHistory,   *)
(* in addToHistory, undo, redo, selectLayer, resetImage and the load         *)
(* callback of loadImage.  An ImageState is a number; past[1] is the oldest  *)
(* state, future[1] the next one to redo.  The layers array is not kept:     *)
(* selectLayer is given the layer that layers.find returns, whose            *)
(* imageState may be any ImageState whatever the history holds, since        *)
(* loadImage resets the history and keeps the layers.                        *)

ImageStates == 1..MaxImageStates

\* the updater of addToHistory
addToHistory(prev, newState) ==
  [past |-> Append(prev.past, prev.present),
   present |-> newState,
   future |-> <<>>]

\* a variant that puts the undone state at the end of future
undoAppendsToFuture(prev) ==
  IF Len(prev.past) = 0 THEN prev
  ELSE [past |-> SubSeq(prev.past, 1, Len(prev.past) - 1),
        present |-> prev.past[Len(prev.past)],
        future |-> Append(prev.future, prev.present)]

\* the updater of undo
undo(prev) ==
  IF Len(prev.past) = 0 THEN prev
  ELSE [past |-> SubSeq(prev.past, 1, Len(prev.past) - 1),
        present |-> prev.past[Len(prev.past)],
        future |-> <<prev.present>> \o prev.future]

\* the updater of redo
redo(prev) ==
  IF Len(prev.future) = 0 THEN prev
  ELSE [past |-> Append(prev.past, prev.present),
        present |-> Head(prev.future),
        future |-> Tail(prev.future)]

\* what layers.find can return: a Layer, of which imageState is read
Layers == [imageState : ImageStates]

\* the updater of layerOperations.selectLayer, lines 815-818
selectLayer(prev, layer) == [prev EXCEPT !.present = layer.imageState]

\* the history that resetImage (lines 1319-1323) and the load callback of
\* loadImage (lines 769-773) set
clearedHistory == [past |-> <<>>, present |-> initialImageState, future |-> <<>>]

\* |past| + 1 + |future|
historySize(h) == Len(h.past) + 1 + Len(h.future)

HistoryInit ==
  /\ CropIdle
  /\ ApplyIdle
  /\ SharpenIdle
  /\ AnalysisIdle
  /\ PaletteIdle
  /\ StepIdle
  /\ LoaderIdle
  /\ HistoryIdle
  /\ pc = "history_run"

AddToHistory ==
  /\ pc = "history_run"
  /\ historySize(history) < MaxHistoryStates
  /\ \E newState \in ImageStates : history' = addToHistory(history, newState)
  /\ UNCHANGED <<pc, cropVars, applyVars, sharpenVars, analysisVars, paletteVars, stepVars,
                 loaderVars>>

Undo ==
  /\ pc = "history_run"
  /\ history' = undo(history)
  /\ UNCHANGED <<pc, cropVars, applyVars, sharpenVars, analysisVars, paletteVars, stepVars,
                 loaderVars>>

Redo ==
  /\ pc = "history_run"
  /\ history' = redo(history)
  /\ UNCHANGED <<pc, cropVars, applyVars, sharpenVars, analysisVars, paletteVars, stepVars,
                 loaderVars>>

\* layerOperations.selectLayer, lines 810-820: setHistory is called when
\* layers.find returns a layer
SelectLayer ==
  /\ pc = "history_run"
  /\ \/ history' = history
     \/ \E layer \in Layers : history' = selectLayer(history, layer)
  /\ UNCHANGED <<pc, cropVars, applyVars, sharpenVars, analysisVars, paletteVars, stepVars,
                 loaderVars>>

\* resetImage, lines 1318-1328
ResetImage ==
  /\ pc = "history_run"
  /\ history' = clearedHistory
  /\ UNCHANGED <<pc, cropVars, applyVars, sharpenVars, analysisVars, paletteVars, stepVars,
                 loaderVars>>

\* handleImageLoad of loadImage once the last file has loaded or failed,
\* lines 755-777
ImagesLoaded ==
  /\ pc = "history_run"
  /\ history' = clearedHistory
  /\ UNCHANGED <<pc, cropVars, applyVars, sharpenVars, analysisVars, paletteVars, stepVars,
                 loaderVars>>

HistoryNext == AddToHistory \/ Undo \/ Redo \/ SelectLayer \/ ResetImage \/ ImagesLoaded

SpecHistory == HistoryInit /\ [][HistoryNext]_vars

---------------------------------------------------------------------------
(* Properties of the undo history *)

\* C30: in every history reached by addToHistory, undo and redo, and by the
\* other writers of the history as well, undo then
\* redo restores past, present and future when past is not empty, redo then
\* undo restores them when future is not empty, undo with an empty past and
\* redo with an empty future change nothing, and undo and redo keep
\* |past| + 1 + |future|.
UndoRedoRoundTrip ==
  pc = "history_run" =>
    /\ history.past # <<>> => redo(undo(history)) = history
    /\ history.future # <<>> => undo(redo(history)) = history
    /\ history.past = <<>> => undo(history) = history
    /\ history.future = <<>> => redo(history) = history
    /\ historySize(undo(history)) = historySize(history)
    /\ historySize(redo(history)) = historySize(history)

\* C30 witness: after three additions and two undos the history has one
\* past state and two different future states, and undo then redo restores it
TwoUndoneStatesWitness ==
  /\ pc = "history_run"
  /\ Len(history.past) = 1
  /\ Len(history.future) = 2
  /\ history.present # history.future[1]
  /\ history.future[1] # history.future[2]
  /\ undo(history) # history
  /\ redo(undo(history)) = history

====
